---- MODULE Spec2Model ----
(***************************************************************************)
(* A model of slideflow's tile-extraction orchestration                    *)
(* (source/slideflow/project.py: extract_tiles, predict_wsi).              *)
(*                                                                         *)
(* A slide path is a pair <<directory, file name>>; the file name stands   *)
(* for the name without its extension.                                     *)
(***************************************************************************)
EXTENDS Integers, Sequences, FiniteSets, TLC

\* ------------------------------------------------------------------ bounds
MaxSlides == 2
NumWorkers == 2
MaxTiles == 2

\* ------------------------------------------------------------ paths, lists
SlidePaths == {<<"a", "s1">>, <<"b", "s1">>, <<"a", "s2">>}
RecordNames == {"s1", "s2", "s3"}
BufferDir == "buf"

basename(path) == path[2]

join(dir, name) == <<dir, name>>

path_to_name(path) == path[2]

Range(seq) == {seq[k] : k \in 1..Len(seq)}

\* all sequences without repetition of at most n elements of S
DistinctSeqs(S, n) ==
  UNION {{f \in [1..k -> S] : \A x, y \in 1..k : x # y => f[x] # f[y]} : k \in 0..n}

IndexOf(seq, x) == CHOOSE k \in 1..Len(seq) : seq[k] = x /\ \A m \in 1..(k-1) : seq[m] # x

\* del(seq[seq.index(x)]): the first occurrence of x is removed
DelFirst(seq, x) ==
  LET k == IndexOf(seq, x)
  IN  SubSeq(seq, 1, k-1) \o SubSeq(seq, k+1, Len(seq))

VARIABLES
  \* the skip_extracted filter of extract_tiles
  sk_pc, sk_skip, slide_input, tfrecord_names, interrupted, sk_i,
  already_extracted_tfrecords, sk_slide_list

skVars == <<sk_pc, sk_skip, slide_input, tfrecord_names, interrupted, sk_i,
            already_extracted_tfrecords, sk_slide_list>>

VARIABLES
  \* extract_tiles and predict_wsi: the orchestration of one dataset
  slide_list,      \* the slides to work on
  buffer,          \* TRUE: a staging directory is given (buffer and buffer != 'vmtouch')
  num_workers,     \* num_workers (extract_tiles), num_threads (predict_wsi)
  q,               \* queue.Queue(): the indices (in slide_list) of the paths put
  unfinished,      \* the queue's count of tasks put and not yet task_done
  task_finished,
  main_pc, idx,    \* the calling thread: its position, the slide it is putting
  warned,
  files,           \* the files present in the staging directory
  wpc, wjob,       \* each worker thread: its position, the slide it claimed
  procs,           \* the processes started and not yet joined: <<worker, slide>>
  result,          \* how the job of each slide ended
  handled,         \* the slides for which task_done was called
  manifest         \* TRUE once update_manifest has run

orVars == <<slide_list, buffer, num_workers, q, unfinished, task_finished, main_pc, idx,
            warned, files, wpc, wjob, procs, result, handled, manifest>>

VARIABLES
  \* predict_wsi
  enable_downsample,
  rds,             \* the downsample argument of the call of predict_wsi each thread is in
  attempts         \* per slide: the calls of predict_wsi made for it, <<downsample, outcome>>

prVars == <<enable_downsample, rds, attempts>>

VARIABLES
  \* the progress counter shared by the slide processes of one dataset
  counter,         \* manager.Value('i', 0)
  held,            \* the locks that are held
  cpc, reg,        \* each worker's process: its position, the value it read
  tiles_left,      \* the tiles its slide still has to give
  slides_left,     \* the slides not yet claimed
  reported         \* per worker: the tiles its processes counted

ctVars == <<counter, held, cpc, reg, tiles_left, slides_left, reported>>

VARIABLES
  \* get_training_and_validation_tfrecords: one directory of record files
  vp_tfrecords,    \* the names of the record files in tfrecord_dir
  vp_unfinished,   \* the names that have an '.unfinished' marker next to them
  validation_log,  \* validation_plan.json
  vp_origin,       \* per strategy: the records and the parameter its stored plan came from
  vp_calls,        \* the calls made so far
  vp_ret,          \* the call that has just returned: its arguments and what it returned
  vp_twin,         \* the same call made over a copy of the directory with no plan file
  split_a, split_n,  \* split(a, n): its arguments
  split_ret    \* <<>>, or <<the folds it returned>>

vpVars == <<vp_tfrecords, vp_unfinished, validation_log, vp_origin, vp_calls, vp_ret,
            vp_twin, split_a, split_n, split_ret>>

VARIABLES
  \* a normalizer of norm/torch/reinhard.py
  threshold,       \* self.threshold: <<>> for None, else <<hundredths>>
  target_means, target_stds,
  ctx_means, ctx_stds,   \* self._ctx_means, self._ctx_stds: <<>> for None
  nm_scope,        \* "in" inside the body of a with image_context(...)
  nm_standard,     \* TRUE: a ReinhardNormalizer, FALSE: a ReinhardFastNormalizer
  nm_last          \* the call that has just ended

nmVars == <<threshold, target_means, target_stds, ctx_means, ctx_stds, nm_scope,
            nm_standard, nm_last>>

VARIABLES
  \* a SlideWidget of workbench/slide_widget.py with a slide loaded
  wg_rois,         \* per cell: the cell lies inside the slide's ROIs
  wg_fractions,    \* per cell: <<gs_fraction, ws_fraction>> of its tile
  use_rois,        \* self._use_rois, the use_rois that viz.wsi was loaded with
  show_tile_filter,
  gs_fraction, ws_fraction,   \* the limits, in hundredths
  filter_grid,     \* self._filter_grid: <<>> for None, else <<grid>>
  ws_grid, gs_grid,
  filter_thread,   \* self._filter_thread: "none", "alive" or "ended"
  wg_pc,           \* the position of the filter thread in _build_filter_grid
  wg_grid,         \* the grid it read
  wg_generator,    \* the cells its generator has still to yield
  wg_alive,        \* the filter threads started and not yet ended
  wg_main,         \* "join" while update_slide_filter waits in _join_filter_thread
  wg_last          \* the operation that has just ended

wgVars == <<wg_rois, wg_fractions, use_rois, show_tile_filter, gs_fraction, ws_fraction,
            filter_grid, ws_grid, gs_grid, filter_thread, wg_pc, wg_grid, wg_generator,
            wg_alive, wg_main, wg_last>>

VARIABLES
  \* update_manifest: the record files of a project and its manifest
  mf_tfrecords,    \* per path <<folder, name>>: the tiles in the file, 0 for no file
  manifest_json,   \* manifest.json: <<>> for no file, else <<per path: <<>> or <<tiles>> >>
  mf_last          \* the call that has just ended

mfVars == <<mf_tfrecords, manifest_json, mf_last>>

VARIABLES
  \* the instances of slideflow on one machine and the files gpu<n>.lock
  gpu_locks,       \* the numbers n with a file gpu<n>.lock in SOURCE_DIR
  GPU_LOCK,        \* per instance: its global GPU_LOCK, -1 for None
  gp_pc,           \* per instance: where it is
  gp_n             \* per instance: n of 'for n in range(number_available)'

gpVars == <<gpu_locks, GPU_LOCK, gp_pc, gp_n>>

vars == <<skVars, orVars, prVars, ctVars, vpVars, nmVars, wgVars, mfVars, gpVars>>

\* what each part of the model leaves alone
orOthers == <<skVars, prVars, ctVars, vpVars, nmVars, wgVars, mfVars, gpVars>>

prOthers == <<skVars, ctVars, vpVars, nmVars, wgVars, mfVars, gpVars>>

skOthers == <<orVars, prVars, ctVars, vpVars, nmVars, wgVars, mfVars, gpVars>>

ctOthers == <<skVars, orVars, prVars, vpVars, nmVars, wgVars, mfVars, gpVars>>

vpOthers == <<skVars, orVars, prVars, ctVars, nmVars, wgVars, mfVars, gpVars>>

nmOthers == <<skVars, orVars, prVars, ctVars, vpVars, wgVars, mfVars, gpVars>>

wgOthers == <<skVars, orVars, prVars, ctVars, vpVars, nmVars, mfVars, gpVars>>

mfOthers == <<skVars, orVars, prVars, ctVars, vpVars, nmVars, wgVars, gpVars>>

gpOthers == <<skVars, orVars, prVars, ctVars, vpVars, nmVars, wgVars, mfVars>>

SkIdle ==
  /\ sk_pc = "off"
  /\ sk_skip = FALSE
  /\ slide_input = <<>>
  /\ tfrecord_names = <<>>
  /\ interrupted = <<>>
  /\ sk_i = 1
  /\ already_extracted_tfrecords = <<>>
  /\ sk_slide_list = <<>>

NoEvent ==
  [op |-> "none", masked |-> FALSE, blank |-> FALSE, kept |-> TRUE, raised |-> FALSE,
   I |-> <<>>, sb |-> <<>>, out |-> <<>>, std |-> <<0, 0>>, scale |-> <<0, 0>>,
   nan |-> FALSE, args |-> <<<<>>, <<>>>>, mean |-> <<0, 0>>]

NmIdle ==
  /\ threshold = <<>>
  /\ target_means = <<0, 1>>
  /\ target_stds = <<0, 1>>
  /\ ctx_means = <<>>
  /\ ctx_stds = <<>>
  /\ nm_scope = "out"
  /\ nm_standard = FALSE
  /\ nm_last = NoEvent

NoOperation == [op |-> "none", grid |-> <<>>, kept |-> TRUE, started |-> FALSE]

\* SlideWidget.__init__ with load(''): no slide
WgIdle ==
  /\ wg_rois = <<>>
  /\ wg_fractions = <<>>
  /\ use_rois = TRUE
  /\ show_tile_filter = FALSE
  /\ gs_fraction = 0
  /\ ws_fraction = 0
  /\ filter_grid = <<>>
  /\ ws_grid = <<>>
  /\ gs_grid = <<>>
  /\ filter_thread = "none"
  /\ wg_pc = "off"
  /\ wg_grid = <<>>
  /\ wg_generator = <<>>
  /\ wg_alive = 0
  /\ wg_main = "idle"
  /\ wg_last = NoOperation

NoUpdate == [op |-> "none", subfolder |-> "", skipped |-> FALSE, before |-> <<>>]

MfIdle ==
  /\ mf_tfrecords = <<>>
  /\ manifest_json = <<>>
  /\ mf_last = NoUpdate

\* no instance of slideflow
GpIdle ==
  /\ gpu_locks = {}
  /\ GPU_LOCK = <<>>
  /\ gp_pc = <<>>
  /\ gp_n = <<>>

\* no file validation_plan.json; a key of the file is <<>> (absent) or <<plan>>
NoLog == [exists |-> FALSE, fixed |-> <<>>, kfold |-> <<>>]

\* the directory of a per-slide dataset: no 'training' and 'validation'
\* subdirectories (split is <<>>, else <<training, validation>>), no kfold-<k>
NoLayout == [split |-> <<>>, kfold |-> <<>>]

NoRet ==
  [call |-> FALSE, target |-> "per-slide", strategy |-> "none", frac |-> <<1, 2>>, k |-> 1,
   iter |-> 1, index |-> <<0>>, dirs |-> NoLayout, outcome |-> "returned",
   slides |-> {}, records |-> {}, unfinished |-> {}, reused |-> FALSE, kept |-> TRUE,
   other |-> TRUE, unchanged |-> FALSE, differs |-> FALSE, training |-> <<>>, validation |-> <<>>]

NoTwin == [call |-> FALSE, log |-> NoLog, training |-> <<>>, validation |-> <<>>]

VpIdle ==
  /\ vp_tfrecords = {}
  /\ vp_unfinished = {}
  /\ validation_log = NoLog
  /\ vp_origin = [fixed |-> <<>>, kfold |-> <<>>]
  /\ vp_calls = 0
  /\ vp_ret = NoRet
  /\ vp_twin = NoTwin
  /\ split_a = <<>>
  /\ split_n = 1
  /\ split_ret = <<>>

\* ------------------------------------------------- extract_tiles: scheduling
Workers == 1..NumWorkers

Threads == 1..num_workers

Jobs == 1..Len(slide_list)

NoJob == 0

\* buffered_path = join(buffer, os.path.basename(slide_path))
BufferedPath(slide_path) == join(BufferDir, basename(slide_path))

\* the path handed to the job of slide i
PathOf(i) == IF buffer THEN BufferedPath(slide_list[i]) ELSE slide_list[i]

MainThread == 0

CtIdle ==
  /\ counter = 0
  /\ held = {}
  /\ cpc = [w \in Workers |-> "off"]
  /\ reg = [w \in Workers |-> 0]
  /\ tiles_left = [w \in Workers |-> 0]
  /\ slides_left = 0
  /\ reported = [w \in Workers |-> 0]

PrIdle ==
  /\ enable_downsample = FALSE
  /\ rds = [r \in {MainThread} \cup Workers |-> FALSE]
  /\ attempts = <<>>

OrIdle ==
  /\ slide_list = <<>>
  /\ buffer = FALSE
  /\ num_workers = 1
  /\ q = <<>>
  /\ unfinished = 0
  /\ task_finished = FALSE
  /\ main_pc = "off"
  /\ idx = 1
  /\ warned = FALSE
  /\ files = {}
  /\ wpc = [w \in Workers |-> "idle"]
  /\ wjob = [w \in Workers |-> NoJob]
  /\ procs = {}
  /\ result = <<>>
  /\ handled = {}
  /\ manifest = FALSE

ExInit ==
  /\ slide_list \in DistinctSeqs(SlidePaths, MaxSlides)
  /\ buffer \in BOOLEAN
  /\ num_workers \in Workers
  /\ q = <<>>
  /\ unfinished = 0
  /\ task_finished = FALSE
  /\ main_pc = "begin"
  /\ idx = 1
  /\ warned = FALSE
  /\ files = {}
  /\ wpc = [w \in Workers |-> "idle"]
  /\ wjob = [w \in Workers |-> NoJob]
  /\ procs = {}
  /\ result = [i \in 1..Len(slide_list) |-> "none"]
  /\ handled = {}
  /\ manifest = FALSE

\* 'Verifying slides...': for slide_path in slide_list, the slide is opened
\* where it lies and its estimated_num_tiles is added to total_tiles
ExVerify ==
  /\ main_pc = "begin"
  /\ idx <= Len(slide_list)
  /\ idx' = idx + 1
  /\ UNCHANGED <<slide_list, buffer, num_workers, q, unfinished, task_finished, main_pc,
                 warned, files, wpc, wjob, procs, result, handled, manifest>>
  /\ UNCHANGED orOthers

\* if len(slide_list): the queue and the worker threads are made
ExBegin ==
  /\ main_pc = "begin"
  /\ idx > Len(slide_list)
  /\ idx' = 1
  /\ main_pc' = IF Len(slide_list) > 0 THEN "put" ELSE "manifest"
  /\ UNCHANGED <<slide_list, buffer, num_workers, q, unfinished, task_finished,
                 warned, files, wpc, wjob, procs, result, handled, manifest>>
  /\ UNCHANGED orOthers

\* q.put(item)
QPut(item) ==
  /\ q' = Append(q, item)
  /\ unfinished' = unfinished + 1

\* for slide_path in slide_list, without a staging directory: q.put(slide_path)
ExPutDirect ==
  /\ main_pc = "put"
  /\ idx <= Len(slide_list)
  /\ ~ buffer
  /\ QPut(idx)
  /\ idx' = idx + 1
  /\ warned' = FALSE
  /\ UNCHANGED <<slide_list, buffer, num_workers, task_finished, main_pc,
                 files, wpc, wjob, procs, result, handled, manifest>>
  /\ UNCHANGED orOthers

\* (a staging loop that never waits for room in the queue)
HasRoomAlways == TRUE

\* the room test of the staging loop: q.qsize() < num_workers
HasRoom == Len(q) < num_workers

\* shutil.copy(slide_path, buffered_path) succeeds
ExCopy ==
  /\ main_pc = "put"
  /\ idx <= Len(slide_list)
  /\ buffer
  /\ HasRoom
  /\ files' = files \cup {BufferedPath(slide_list[idx])}
  /\ main_pc' = "copied"
  /\ UNCHANGED <<slide_list, buffer, num_workers, q, unfinished, task_finished, idx,
                 warned, wpc, wjob, procs, result, handled, manifest>>
  /\ UNCHANGED orOthers

\* shutil.copy raises OSError: the destination is left as it was or holds a
\* partial copy; except OSError: warned = True, time.sleep(1)
ExCopyFail ==
  /\ main_pc = "put"
  /\ idx <= Len(slide_list)
  /\ buffer
  /\ HasRoom
  /\ files' \in {files, files \cup {BufferedPath(slide_list[idx])}}
  /\ warned' = TRUE
  /\ main_pc' = "sleep_err"
  /\ UNCHANGED <<slide_list, buffer, num_workers, q, unfinished, task_finished, idx,
                 wpc, wjob, procs, result, handled, manifest>>
  /\ UNCHANGED orOthers

\* q.put(buffered_path); break
ExPutBuffered ==
  /\ main_pc = "copied"
  /\ QPut(idx)
  /\ idx' = idx + 1
  /\ warned' = FALSE
  /\ main_pc' = "put"
  /\ UNCHANGED <<slide_list, buffer, num_workers, task_finished,
                 files, wpc, wjob, procs, result, handled, manifest>>
  /\ UNCHANGED orOthers

\* else: time.sleep(1)
ExQueueFull ==
  /\ main_pc = "put"
  /\ idx <= Len(slide_list)
  /\ buffer
  /\ ~ HasRoom
  /\ main_pc' = "sleep_full"
  /\ UNCHANGED <<slide_list, buffer, num_workers, q, unfinished, task_finished, idx,
                 warned, files, wpc, wjob, procs, result, handled, manifest>>
  /\ UNCHANGED orOthers

\* the sleep ends: back to 'while True'
ExWake ==
  /\ main_pc \in {"sleep_err", "sleep_full"}
  /\ main_pc' = "put"
  /\ UNCHANGED <<slide_list, buffer, num_workers, q, unfinished, task_finished, idx,
                 warned, files, wpc, wjob, procs, result, handled, manifest>>
  /\ UNCHANGED orOthers

\* the for loop ends
ExPutEnd ==
  /\ main_pc = "put"
  /\ idx > Len(slide_list)
  /\ main_pc' = "join"
  /\ UNCHANGED <<slide_list, buffer, num_workers, q, unfinished, task_finished, idx,
                 warned, files, wpc, wjob, procs, result, handled, manifest>>
  /\ UNCHANGED orOthers

\* (a join that waits for the queue to be empty only)
QJoinReturnsWhenEmpty == q = <<>>

\* q.join() returns when no task is unfinished
QJoinReturns == unfinished = 0

\* q.join(); task_finished = True; the progress bar is ended, the report made
ExJoin ==
  /\ main_pc = "join"
  /\ QJoinReturns
  /\ task_finished' = TRUE
  /\ main_pc' = "manifest"
  /\ UNCHANGED <<slide_list, buffer, num_workers, q, unfinished, idx,
                 warned, files, wpc, wjob, procs, result, handled, manifest>>
  /\ UNCHANGED orOthers

\* extracting_dataset.update_manifest()
ExUpdateManifest ==
  /\ main_pc = "manifest"
  /\ manifest' = TRUE
  /\ main_pc' = "done"
  /\ UNCHANGED <<slide_list, buffer, num_workers, q, unfinished, task_finished, idx,
                 warned, files, wpc, wjob, procs, result, handled>>
  /\ UNCHANGED orOthers

\* q.get() with block=True and no timeout waits for an item: it never raises
\* queue.Empty
GetRaisesEmpty == FALSE

\* worker: path = q.get(); except queue.Empty: if task_finished: return
ExGet(w) ==
  /\ main_pc \notin {"begin", "off"}
  /\ wpc[w] = "idle"
  /\ IF q # <<>>
     THEN /\ wjob' = [wjob EXCEPT ![w] = Head(q)]
          /\ q' = Tail(q)
          /\ wpc' = [wpc EXCEPT ![w] = "got"]
     ELSE /\ GetRaisesEmpty
          /\ wpc' = [wpc EXCEPT ![w] = IF task_finished THEN "returned" ELSE "idle"]
          /\ UNCHANGED <<wjob, q>>
  /\ UNCHANGED <<slide_list, buffer, num_workers, unfinished, task_finished, main_pc, idx,
                 warned, files, procs, result, handled, manifest>>
  /\ UNCHANGED orOthers

\* worker: process = ctx.Process(target=tile_extractor, ...); process.start()
ExStart(w) ==
  /\ wpc[w] = "got"
  /\ procs' = procs \cup {<<w, wjob[w]>>}
  /\ wpc' = [wpc EXCEPT ![w] = "proc"]
  /\ UNCHANGED <<slide_list, buffer, num_workers, q, unfinished, task_finished, main_pc, idx,
                 warned, files, wjob, result, handled, manifest>>
  /\ UNCHANGED orOthers

\* (a worker that does not wait for its process)
JoinedNoWait(w) == procs

\* process.join(): the processes left once the worker's process has ended
Joined(w) == procs \ {<<w, wjob[w]>>}

\* (process.join() raising in the worker when the process failed)
AfterJoinRaise(outcome) == IF outcome = "ok" THEN "joined" ELSE "dead"

\* where the worker is after process.join(): the exit code is not looked at
AfterJoin(outcome) == "joined"

\* worker: the slide's process ends, well or not, and process.join() returns
ExProcessJoin(w) ==
  /\ wpc[w] = "proc"
  /\ \E outcome \in {"ok", "crashed"} :
       /\ result' = [result EXCEPT ![wjob[w]] = outcome]
       /\ wpc' = [wpc EXCEPT ![w] = AfterJoin(outcome)]
  /\ procs' = Joined(w)
  /\ UNCHANGED <<slide_list, buffer, num_workers, q, unfinished, task_finished, main_pc, idx,
                 warned, files, wjob, handled, manifest>>
  /\ UNCHANGED orOthers

\* worker: if buffer and buffer != 'vmtouch': os.remove(path)
\* a missing file raises FileNotFoundError, which the worker does not catch
ExRemove(w) ==
  /\ wpc[w] = "joined"
  /\ buffer
  /\ IF PathOf(wjob[w]) \in files
       THEN /\ files' = files \ {PathOf(wjob[w])}
            /\ wpc' = [wpc EXCEPT ![w] = "removed"]
       ELSE /\ files' = files
            /\ wpc' = [wpc EXCEPT ![w] = "dead"]
  /\ UNCHANGED <<slide_list, buffer, num_workers, q, unfinished, task_finished, main_pc, idx,
                 warned, wjob, procs, result, handled, manifest>>
  /\ UNCHANGED orOthers

\* worker: os.remove(path) raises another OSError and leaves the file
ExRemoveFail(w) ==
  /\ wpc[w] = "joined"
  /\ buffer
  /\ PathOf(wjob[w]) \in files
  /\ wpc' = [wpc EXCEPT ![w] = "dead"]
  /\ UNCHANGED <<slide_list, buffer, num_workers, q, unfinished, task_finished, main_pc, idx,
                 warned, files, wjob, procs, result, handled, manifest>>
  /\ UNCHANGED orOthers

\* worker: q.task_done()
ExTaskDone(w) ==
  /\ \/ wpc[w] = "removed"
     \/ wpc[w] = "joined" /\ ~ buffer
  /\ unfinished' = unfinished - 1
  /\ handled' = handled \cup {wjob[w]}
  /\ wpc' = [wpc EXCEPT ![w] = "idle"]
  /\ UNCHANGED <<slide_list, buffer, num_workers, q, task_finished, main_pc, idx,
                 warned, files, wjob, procs, result, manifest>>
  /\ UNCHANGED orOthers

ExMain ==
  \/ ExVerify
  \/ ExBegin
  \/ ExPutDirect
  \/ ExCopy
  \/ ExCopyFail
  \/ ExPutBuffered
  \/ ExQueueFull
  \/ ExWake
  \/ ExPutEnd
  \/ ExJoin
  \/ ExUpdateManifest

ExNext ==
  \/ ExMain
  \/ \E w \in Threads : ExGet(w)
  \/ \E w \in Threads : ExStart(w)
  \/ \E w \in Threads : ExProcessJoin(w)
  \/ \E w \in Threads : ExRemove(w)
  \/ \E w \in Threads : ExRemoveFail(w)
  \/ \E w \in Threads : ExTaskDone(w)

ExtractInit == SkIdle /\ PrIdle /\ CtIdle /\ VpIdle /\ NmIdle /\ WgIdle /\ MfIdle /\ GpIdle /\ ExInit

SpecExtract == ExtractInit /\ [][ExNext]_vars

ExWorker(w) ==
  \/ ExGet(w)
  \/ ExStart(w)
  \/ ExProcessJoin(w)
  \/ ExRemove(w)
  \/ ExRemoveFail(w)
  \/ ExTaskDone(w)

\* the threads are scheduled fairly; a copy that is retried again and again
\* succeeds in the end
FairSpecExtract ==
  /\ SpecExtract
  /\ WF_vars(ExMain)
  /\ SF_vars(ExCopy)
  /\ \A w \in Workers : WF_vars(w \in Threads /\ ExWorker(w))

\* the threads are scheduled fairly; nothing is assumed of the file system
FairSpecExtractIO ==
  /\ SpecExtract
  /\ WF_vars(ExMain)
  /\ \A w \in Workers : WF_vars(w \in Threads /\ ExWorker(w))

\* slide i is queued, or claimed by a worker that has not yet removed its file
InFlight(i) ==
  \/ i \in Range(q)
  \/ \E w \in Workers : wjob[w] = i /\ wpc[w] \in {"got", "proc", "joined"}

\* the jobs that were handed path p (or are about to be: the copy is made)
Owners(p) ==
  {i \in Jobs : InFlight(i) /\ PathOf(i) = p}
    \cup {i \in Jobs : main_pc = "copied" /\ i = idx /\ PathOf(i) = p}

\* C3: the processes started and not yet joined are at most num_workers, and
\* each worker thread has at most one of them.
C3_BoundedProcesses ==
  main_pc # "off" =>
    /\ Cardinality(procs) <= num_workers
    /\ \A w \in Workers : Cardinality({p \in procs : p[1] = w}) <= 1

\* every worker has a process running
C3_Witness ==
  /\ main_pc # "off"
  /\ num_workers = NumWorkers
  /\ Cardinality(procs) = NumWorkers

\* C4: the manifest is updated only after every slide put on the queue was
\* handled by a worker: its process joined and task_done called; nothing is
\* queued or in flight then.
C4_ManifestAfterDrain ==
  (main_pc \in {"manifest", "done"} \/ manifest) =>
    /\ handled = Jobs
    /\ q = <<>>
    /\ procs = {}
    /\ unfinished = 0
    /\ \A w \in Workers : wpc[w] = "idle"

\* the manifest is updated after a run with a staging directory over a full list
C4_Witness ==
  /\ manifest
  /\ buffer
  /\ Len(slide_list) = MaxSlides
  /\ handled = Jobs

\* C5 (as claimed): with fair scheduling and processes that all end, every run
\* of extract_tiles reaches the manifest update, also with staging and when
\* removing a staged file fails.
C5_EventuallyManifest == <>(main_pc = "done" /\ manifest)

\* nothing more can happen
ExStuck == ~ ENABLED ExNext

C7_ExclusiveOwner ==
  (main_pc # "off" /\ buffer) =>
    \A i \in Jobs :
      InFlight(i) =>
        /\ Owners(PathOf(i)) = {i}
        /\ PathOf(i) \in files

\* C26: the job of a slide goes through its states in order: with a staging
\* directory the slide is copied there before its tile count is estimated, no
\* slide is given to a process before its tile count is estimated, and a slide
\* whose task is done is never queued or held by a worker again.
C26_StateOrder ==
  \A i \in Jobs :
    LET verified == main_pc # "begin" \/ i < idx
        staged == /\ main_pc # "begin"
                  /\ i < idx \/ (i = idx /\ main_pc = "copied")
        started == result[i] # "none" \/ \E w \in Threads : <<w, i>> \in procs
    IN  /\ (buffer /\ verified) => staged
        /\ started => verified
        /\ i \in handled =>
             /\ i \notin Range(q)
             /\ \A w \in Threads : wjob[w] = i => wpc[w] = "idle"

\* C29: every slide put on the queue is on the queue once, or held by exactly
\* one worker that is still running, or has had its task_done; the queue's
\* count of unfinished tasks is the slides put less those with task_done.
C29_ExactlyOnce ==
  LET put == IF main_pc \in {"begin", "off"} THEN {} ELSE {i \in Jobs : i < idx}
      holders(i) == {w \in Threads : wjob[w] = i /\ wpc[w] # "idle"}
      running(i) == {w \in holders(i) : wpc[w] # "dead"}
      queued(i) == Cardinality({k \in 1..Len(q) : q[k] = i})
  IN  /\ \A i \in Jobs :
           IF i \in put
           THEN queued(i) + Cardinality(running(i)) + (IF i \in handled THEN 1 ELSE 0) = 1
           ELSE queued(i) = 0 /\ holders(i) = {} /\ i \notin handled
      /\ unfinished = Cardinality(put) - Cardinality(handled)

\* C30: once the queue is drained and task_finished is set, every worker
\* thread leaves its loop and returns.
C30_WorkersReturn ==
  (task_finished /\ q = <<>>) ~> (\A w \in Threads : wpc[w] = "returned")

\* ------------------------------------------- extract_tiles: the staging buffer
\* more slides than the queue and the workers can hold, each with its own
\* file name
MaxStaged == 3

StageList == <<<<"a", "s1">>, <<"a", "s2">>, <<"b", "s3">>, <<"b", "s4">>>>

StageInit ==
  /\ SkIdle /\ PrIdle /\ CtIdle /\ VpIdle /\ NmIdle /\ WgIdle /\ MfIdle /\ GpIdle
  /\ slide_list \in {SubSeq(StageList, 1, n) : n \in 0..MaxStaged}
  /\ buffer \in BOOLEAN
  /\ num_workers \in Workers
  /\ q = <<>>
  /\ unfinished = 0
  /\ task_finished = FALSE
  /\ main_pc = "begin"
  /\ idx = 1
  /\ warned = FALSE
  /\ files = {}
  /\ wpc = [w \in Workers |-> "idle"]
  /\ wjob = [w \in Workers |-> NoJob]
  /\ procs = {}
  /\ result = [i \in 1..Len(slide_list) |-> "none"]
  /\ handled = {}
  /\ manifest = FALSE

SpecStage == StageInit /\ [][ExNext]_vars

\* C31: with a staging directory, a slide is staged only while fewer than
\* num_workers slides wait in the queue: at most num_workers slides are queued
\* and the staging directory holds at most 2 * num_workers files.
C31_StagedBounded ==
  buffer =>
    /\ Len(q) <= num_workers
    /\ Cardinality(files) <= 2 * num_workers

\* the bound is met while a further slide waits to be staged
C31_Witness ==
  /\ buffer
  /\ Cardinality(files) = 2 * num_workers
  /\ main_pc \in {"put", "sleep_full"}
  /\ idx <= Len(slide_list)

\* C9 (as claimed): the copy into the staging directory is retried only
\* finitely often: from some point on the calling thread is never again in
\* the sleep that follows a failed copy.
C9_CopyRetriesEnd == <>[](main_pc # "sleep_err")

\* -------------------------------------------------------------- predict_wsi
PrInit ==
  /\ slide_list \in DistinctSeqs(SlidePaths, MaxSlides)
  /\ buffer \in BOOLEAN
  /\ num_workers \in Workers
  /\ enable_downsample \in BOOLEAN
  /\ q = <<>>
  /\ unfinished = 0
  /\ task_finished = FALSE
  /\ main_pc = "begin"
  /\ idx = 1
  /\ warned = FALSE
  /\ files = {}
  /\ wpc = [w \in Workers |-> "idle"]
  /\ wjob = [w \in Workers |-> NoJob]
  /\ procs = {}
  /\ result = [i \in 1..Len(slide_list) |-> "none"]
  /\ handled = {}
  /\ manifest = FALSE
  /\ rds = [r \in {MainThread} \cup Workers |-> FALSE]
  /\ attempts = [i \in 1..Len(slide_list) |-> <<>>]

\* how a call of predict_wsi can end: it returns (the slide is not
\* loaded_correctly, or the prediction is made and saved), a tile is corrupt
\* (TileCorruptionError), or something else is raised
Outcomes == {"returned", "corrupt", "error"}

\* except TileCorruptionError: if downsample: predict_wsi(slide_path, downsample=False)
Retries(downsample, outcome) == outcome = "corrupt" /\ downsample

\* (a retry that passes its own downsample argument on)
RetryDownsampleSame(downsample) == downsample

\* the downsample argument of the retry
RetryDownsample(downsample) == FALSE

\* one call of predict_wsi for slide i by thread r, ending with outcome
Attempt(r, i, outcome) ==
  /\ attempts' = [attempts EXCEPT ![i] = Append(@, <<rds[r], outcome>>)]
  /\ rds' = IF Retries(rds[r], outcome)
              THEN [rds EXCEPT ![r] = RetryDownsample(rds[r])]
              ELSE rds

\* if num_threads > 1 and len(slide_list): the queue and the threads are made
PrBegin ==
  /\ main_pc = "begin"
  /\ main_pc' = IF num_workers > 1 /\ Len(slide_list) > 0 THEN "put" ELSE "seq"
  /\ UNCHANGED <<slide_list, buffer, num_workers, q, unfinished, task_finished, idx,
                 warned, files, wpc, wjob, procs, result, handled, manifest>>
  /\ UNCHANGED <<prVars, prOthers>>

\* else: for slide_path in slide_list: predict_wsi(slide_path, enable_downsample)
PrSeqCall ==
  /\ main_pc = "seq"
  /\ idx <= Len(slide_list)
  /\ rds' = [rds EXCEPT ![MainThread] = enable_downsample]
  /\ main_pc' = "seq_call"
  /\ UNCHANGED <<slide_list, buffer, num_workers, q, unfinished, task_finished, idx,
                 warned, files, wpc, wjob, procs, result, handled, manifest>>
  /\ UNCHANGED <<enable_downsample, attempts, prOthers>>

\* the calling thread inside predict_wsi: an exception other than
\* TileCorruptionError leaves predict_wsi and the loop
PrSeqAttempt ==
  /\ main_pc = "seq_call"
  /\ \E outcome \in Outcomes :
       /\ Attempt(MainThread, idx, outcome)
       /\ IF Retries(rds[MainThread], outcome)
            THEN main_pc' = "seq_call" /\ idx' = idx
            ELSE IF outcome = "error"
                   THEN main_pc' = "raised" /\ idx' = idx
                   ELSE main_pc' = "seq" /\ idx' = idx + 1
  /\ UNCHANGED <<slide_list, buffer, num_workers, q, unfinished, task_finished,
                 warned, files, wpc, wjob, procs, result, handled, manifest>>
  /\ UNCHANGED <<enable_downsample, prOthers>>

PrSeqEnd ==
  /\ main_pc = "seq"
  /\ idx > Len(slide_list)
  /\ main_pc' = "done"
  /\ UNCHANGED <<slide_list, buffer, num_workers, q, unfinished, task_finished, idx,
                 warned, files, wpc, wjob, procs, result, handled, manifest>>
  /\ UNCHANGED <<prVars, prOthers>>

\* threaded, no staging directory: q.put(slide_path)
PrPutDirect ==
  /\ main_pc = "put"
  /\ idx <= Len(slide_list)
  /\ ~ buffer
  /\ QPut(idx)
  /\ idx' = idx + 1
  /\ UNCHANGED <<slide_list, buffer, num_workers, task_finished, main_pc,
                 warned, files, wpc, wjob, procs, result, handled, manifest>>
  /\ UNCHANGED <<prVars, prOthers>>

\* shutil.copyfile(slide_path, join(buffer, basename(slide_path))) succeeds
PrCopy ==
  /\ main_pc = "put"
  /\ idx <= Len(slide_list)
  /\ buffer
  /\ files' = files \cup {BufferedPath(slide_list[idx])}
  /\ main_pc' = "copied"
  /\ UNCHANGED <<slide_list, buffer, num_workers, q, unfinished, task_finished, idx,
                 warned, wpc, wjob, procs, result, handled, manifest>>
  /\ UNCHANGED <<prVars, prOthers>>

\* shutil.copyfile raises OSError; except OSError: time.sleep(5)
PrCopyFail ==
  /\ main_pc = "put"
  /\ idx <= Len(slide_list)
  /\ buffer
  /\ files' \in {files, files \cup {BufferedPath(slide_list[idx])}}
  /\ main_pc' = "sleep_err"
  /\ UNCHANGED <<slide_list, buffer, num_workers, q, unfinished, task_finished, idx,
                 warned, wpc, wjob, procs, result, handled, manifest>>
  /\ UNCHANGED <<prVars, prOthers>>

\* q.put(slide_path); break
PrPutBuffered ==
  /\ main_pc = "copied"
  /\ QPut(idx)
  /\ idx' = idx + 1
  /\ main_pc' = "put"
  /\ UNCHANGED <<slide_list, buffer, num_workers, task_finished,
                 warned, files, wpc, wjob, procs, result, handled, manifest>>
  /\ UNCHANGED <<prVars, prOthers>>

PrWake ==
  /\ main_pc = "sleep_err"
  /\ main_pc' = "put"
  /\ UNCHANGED <<slide_list, buffer, num_workers, q, unfinished, task_finished, idx,
                 warned, files, wpc, wjob, procs, result, handled, manifest>>
  /\ UNCHANGED <<prVars, prOthers>>

PrPutEnd ==
  /\ main_pc = "put"
  /\ idx > Len(slide_list)
  /\ main_pc' = "join"
  /\ UNCHANGED <<slide_list, buffer, num_workers, q, unfinished, task_finished, idx,
                 warned, files, wpc, wjob, procs, result, handled, manifest>>
  /\ UNCHANGED <<prVars, prOthers>>

\* q.join(); task_finished = True
PrJoin ==
  /\ main_pc = "join"
  /\ QJoinReturns
  /\ task_finished' = TRUE
  /\ main_pc' = "done"
  /\ UNCHANGED <<slide_list, buffer, num_workers, q, unfinished, idx,
                 warned, files, wpc, wjob, procs, result, handled, manifest>>
  /\ UNCHANGED <<prVars, prOthers>>

\* worker: path = q.get(); predict_wsi(..., enable_downsample) is called
PrGet(w) ==
  /\ main_pc \in {"put", "copied", "sleep_err", "join", "done"}
  /\ wpc[w] = "idle"
  /\ q # <<>>
  /\ wjob' = [wjob EXCEPT ![w] = Head(q)]
  /\ q' = Tail(q)
  /\ wpc' = [wpc EXCEPT ![w] = "got"]
  /\ rds' = [rds EXCEPT ![w] = enable_downsample]
  /\ UNCHANGED <<slide_list, buffer, num_workers, unfinished, task_finished, main_pc, idx,
                 warned, files, procs, result, handled, manifest>>
  /\ UNCHANGED <<enable_downsample, attempts, prOthers>>

\* worker inside predict_wsi: an exception other than TileCorruptionError
\* leaves predict_wsi and the worker, which catches queue.Empty only
PrAttempt(w) ==
  /\ wpc[w] = "got"
  /\ \E outcome \in Outcomes :
       /\ Attempt(w, wjob[w], outcome)
       /\ wpc' = [wpc EXCEPT ![w] =
                    IF Retries(rds[w], outcome) THEN "got"
                    ELSE IF outcome = "error" THEN "dead" ELSE "returned"]
  /\ UNCHANGED <<slide_list, buffer, num_workers, q, unfinished, task_finished, main_pc, idx,
                 warned, files, wjob, procs, result, handled, manifest>>
  /\ UNCHANGED <<enable_downsample, prOthers>>

\* worker: os.remove(buffered_path)
PrRemove(w) ==
  /\ wpc[w] = "returned"
  /\ buffer
  /\ IF PathOf(wjob[w]) \in files
       THEN /\ files' = files \ {PathOf(wjob[w])}
            /\ wpc' = [wpc EXCEPT ![w] = "removed"]
       ELSE /\ files' = files
            /\ wpc' = [wpc EXCEPT ![w] = "dead"]
  /\ UNCHANGED <<slide_list, buffer, num_workers, q, unfinished, task_finished, main_pc, idx,
                 warned, wjob, procs, result, handled, manifest>>
  /\ UNCHANGED <<prVars, prOthers>>

\* worker: q.task_done()
PrTaskDone(w) ==
  /\ \/ wpc[w] = "removed"
     \/ wpc[w] = "returned" /\ ~ buffer
  /\ unfinished' = unfinished - 1
  /\ handled' = handled \cup {wjob[w]}
  /\ wpc' = [wpc EXCEPT ![w] = "idle"]
  /\ UNCHANGED <<slide_list, buffer, num_workers, q, task_finished, main_pc, idx,
                 warned, files, wjob, procs, result, manifest>>
  /\ UNCHANGED <<prVars, prOthers>>

PrNext ==
  \/ PrBegin
  \/ PrSeqCall
  \/ PrSeqAttempt
  \/ PrSeqEnd
  \/ PrPutDirect
  \/ PrCopy
  \/ PrCopyFail
  \/ PrPutBuffered
  \/ PrWake
  \/ PrPutEnd
  \/ PrJoin
  \/ \E w \in Threads : PrGet(w)
  \/ \E w \in Threads : PrAttempt(w)
  \/ \E w \in Threads : PrRemove(w)
  \/ \E w \in Threads : PrTaskDone(w)

PredictInit == SkIdle /\ CtIdle /\ VpIdle /\ NmIdle /\ WgIdle /\ MfIdle /\ GpIdle /\ PrInit

SpecPredict == PredictInit /\ [][PrNext]_vars

\* no thread is inside predict_wsi for slide i
Settled(i) ==
  /\ ~ \E w \in Workers : wjob[w] = i /\ wpc[w] = "got"
  /\ ~ (main_pc = "seq_call" /\ idx = i)

\* C1: a slide is attempted at most twice. The first attempt runs with
\* enable_downsample; a second attempt is made exactly when the first raised
\* TileCorruptionError with downsampling enabled, and it runs with downsampling
\* disabled; whatever the second attempt does, there is no third.
C1_RetryOnce ==
  main_pc # "off" =>
    \A i \in Jobs :
      LET a == attempts[i]
      IN  /\ Len(a) <= 2
          /\ Len(a) >= 1 => a[1][1] = enable_downsample
          /\ Len(a) = 2 => (a[1] = <<TRUE, "corrupt">> /\ a[2][1] = FALSE)
          /\ (Len(a) >= 1 /\ a[1] = <<TRUE, "corrupt">> /\ Settled(i)) => Len(a) = 2
          /\ (Len(a) >= 1 /\ a[1][1] = FALSE) => Len(a) = 1

\* a slide whose two attempts both raised TileCorruptionError was abandoned
\* and the run went on to its end
C1_Witness ==
  /\ main_pc = "done"
  /\ \E i \in Jobs : attempts[i] = <<<<TRUE, "corrupt">>, <<FALSE, "corrupt">>>>

\* the job of slide i is over: task_done was called for it, or the worker
\* that claimed it has died of an exception
JobOver(i) ==
  \/ i \in handled
  \/ \E w \in Workers : wjob[w] = i /\ wpc[w] = "dead"

\* C8 (as claimed): a staged file is deleted once its job has completed,
\* failed or raised: every file in the staging directory belongs to a slide
\* whose job is not over yet.
C8_StagedCopyDeleted ==
  (main_pc # "off" /\ buffer) =>
    \A p \in files : \E j \in Jobs : PathOf(j) = p /\ ~ JobOver(j)

\* ------------------------------------------ extract_tiles: progress counter
CtInit ==
  /\ counter = 0
  /\ held = {}
  /\ cpc = [w \in Workers |-> "none"]
  /\ reg = [w \in Workers |-> 0]
  /\ tiles_left = [w \in Workers |-> 0]
  /\ slides_left \in 0..MaxSlides
  /\ reported = [w \in Workers |-> 0]

\* (a lock of its own for every process)
OwnLock(w) == w

\* counter_lock = manager.Lock(), made once and passed to every process
CounterLock(w) == 0

\* worker w claims a slide and starts its process; the slide has some tiles
CtStart(w) ==
  /\ cpc[w] = "none"
  /\ slides_left > 0
  /\ slides_left' = slides_left - 1
  /\ \E n \in 0..MaxTiles : tiles_left' = [tiles_left EXCEPT ![w] = n]
  /\ cpc' = [cpc EXCEPT ![w] = "tile"]
  /\ UNCHANGED <<counter, held, reg, reported, ctOthers>>

\* the process has a tile: with counter_lock:
CtAcquire(w) ==
  /\ cpc[w] = "tile"
  /\ tiles_left[w] > 0
  /\ CounterLock(w) \notin held
  /\ held' = held \cup {CounterLock(w)}
  /\ cpc' = [cpc EXCEPT ![w] = "locked"]
  /\ UNCHANGED <<counter, reg, tiles_left, slides_left, reported, ctOthers>>

\* counter.value += 1: the value is read from the manager ...
CtRead(w) ==
  /\ cpc[w] = "locked"
  /\ reg' = [reg EXCEPT ![w] = counter]
  /\ cpc' = [cpc EXCEPT ![w] = "read"]
  /\ UNCHANGED <<counter, held, tiles_left, slides_left, reported, ctOthers>>

\* ... and the value plus one is written back
CtWrite(w) ==
  /\ cpc[w] = "read"
  /\ counter' = reg[w] + 1
  /\ reported' = [reported EXCEPT ![w] = @ + 1]
  /\ cpc' = [cpc EXCEPT ![w] = "written"]
  /\ UNCHANGED <<held, reg, tiles_left, slides_left, ctOthers>>

\* the with block ends
CtRelease(w) ==
  /\ cpc[w] = "written"
  /\ held' = held \ {CounterLock(w)}
  /\ tiles_left' = [tiles_left EXCEPT ![w] = @ - 1]
  /\ cpc' = [cpc EXCEPT ![w] = "tile"]
  /\ UNCHANGED <<counter, reg, slides_left, reported, ctOthers>>

\* the process has no tile left and ends; process.join() returns
CtExit(w) ==
  /\ cpc[w] = "tile"
  /\ tiles_left[w] = 0
  /\ cpc' = [cpc EXCEPT ![w] = "none"]
  /\ UNCHANGED <<counter, held, reg, tiles_left, slides_left, reported, ctOthers>>

\* the process crashes; a lock it holds stays held; process.join() returns
CtCrash(w) ==
  /\ cpc[w] \in {"tile", "locked", "read", "written"}
  /\ cpc' = [cpc EXCEPT ![w] = "none"]
  /\ tiles_left' = [tiles_left EXCEPT ![w] = 0]
  /\ UNCHANGED <<counter, held, reg, slides_left, reported, ctOthers>>

CtNext ==
  \/ \E w \in Workers : CtStart(w)
  \/ \E w \in Workers : CtAcquire(w)
  \/ \E w \in Workers : CtRead(w)
  \/ \E w \in Workers : CtWrite(w)
  \/ \E w \in Workers : CtRelease(w)
  \/ \E w \in Workers : CtExit(w)
  \/ \E w \in Workers : CtCrash(w)

CounterInit == SkIdle /\ OrIdle /\ PrIdle /\ VpIdle /\ NmIdle /\ WgIdle /\ MfIdle /\ GpIdle /\ CtInit

SpecCounter == CounterInit /\ [][CtNext]_vars

RECURSIVE SumUpTo(_, _)
SumUpTo(f, n) == IF n = 0 THEN 0 ELSE f[n] + SumUpTo(f, n - 1)

CtFinished == slides_left = 0 /\ \A w \in Workers : cpc[w] = "none"

\* C10: the processes of one dataset share one counter and one lock and count
\* each tile under the lock, so no increment is lost: once all jobs have
\* ended the counter is the number of tiles the jobs counted.
C10_NoLostIncrement ==
  CtFinished => counter = SumUpTo(reported, NumWorkers)

\* every worker's processes counted tiles, and all jobs have ended
C10_Witness ==
  /\ CtFinished
  /\ \A w \in Workers : reported[w] >= 1
  /\ counter = SumUpTo(reported, NumWorkers)

\* ------------------------ get_training_and_validation_tfrecords (per-slide)
\* A record file is named by its slide: tfr.split('/')[-1][:-10] strips the
\* directory and '.tfrecords', and the entries of a plan are file names.
MaxFolds == 3

MaxCalls == 2

\* slide_list: the slides of the dataset, with and without the last one
SlideLists == {RecordNames, RecordNames \ {"s3"}}

\* val_fraction as <<numerator, denominator>>
Fractions == {<<1, 2>>, <<2, 3>>}

Strategies == {"bootstrap", "fixed", "k-fold", "none"}

Min(a, b) == IF a < b THEN a ELSE b

SliceAfter(a, i, j) == SubSeq(a, i + 2, Min(j, Len(a)))

\* a[i:j] for 0 <= i and 0 <= j
Slice(a, i, j) == SubSeq(a, i + 1, Min(j, Len(a)))

\* glob gives the files in any order and shuffle(tfrecords) reorders them
Shuffles(S) == {f \in [1..Cardinality(S) -> S] : Range(f) = S}

\* num_val = int(val_fraction * len(tfrecords))
NumVal(frac, n) == (frac[1] * n) \div frac[2]

\* k, m = divmod(len(a), n); fold i is a[i*k + min(i, m) : (i+1)*k + min(i+1, m)]
splitNoRemainder(a, n) ==
  LET k == Len(a) \div n
  IN  [i \in 1..n |-> Slice(a, (i-1) * k, i * k)]

split(a, n) ==
  LET k == Len(a) \div n
      m == Len(a) % n
  IN  [i \in 1..n |-> Slice(a, (i-1) * k + Min(i-1, m), i * k + Min(i, m))]

\* logged_cases += fold, training_tfrecords += split_ret[k]
RECURSIVE Flatten(_)
Flatten(folds) ==
  IF folds = <<>> THEN <<>> ELSE Head(folds) \o Flatten(Tail(folds))

FixedPlanNeverValid(log, slides, num_val) == FALSE

\* the stored 'fixed' plan is taken when it has num_val entries, all of slides in slide_list
FixedPlanValid(log, slides, num_val) ==
  /\ log.exists
  /\ log.fixed # <<>>
  /\ Len(log.fixed[1]) = num_val
  /\ \A tf \in Range(log.fixed[1]) : tf \in slides

\* the stored 'k-fold' plan is taken when it has k_fold folds holding as many
\* entries as there are records, all of slides in slide_list
KFoldPlanValid(log, slides, k_fold, n) ==
  /\ log.exists
  /\ log.kfold # <<>>
  /\ Len(log.kfold[1]) = k_fold
  /\ Len(Flatten(log.kfold[1])) = n
  /\ \A tf \in Range(Flatten(log.kfold[1])) : tf \in slides

\* (a call that starts every new plan from an empty dictionary)
load_jsonEmpty(log) == NoLog

\* validation_plan = sfutil.load_json(validation_log): the keys of the file,
\* to which the new plan of the strategy is assigned before write_json
load_json(log) == log

\* (a call that takes fold 0 whatever iteration is asked for)
KFoldIndexFirst(k_fold_iter) == IF k_fold_iter # 0 THEN <<0>> ELSE <<>>

\* if k_fold_iter: k_fold_index = int(k_fold_iter)-1, with k_fold_iter 0 for None
\* (None and 0 are both falsy); <<>> is the local name left unbound
KFoldIndex(k_fold_iter) == IF k_fold_iter # 0 THEN <<k_fold_iter - 1>> ELSE <<>>

\* the function for val_target = 'per-slide': the file it leaves and what it returns;
\* reading k_fold_index while it is unbound raises UnboundLocalError, in the
\* reused plan (line 298) and in the loop over the new folds (line 311) alike,
\* before write_json
PlanCall(log, slides, val_strategy, val_fraction, k_fold, k_fold_index, tfrecords) ==
  LET n == Len(tfrecords)
      num_val == NumVal(val_fraction, n)
      In(plan) == SelectSeq(tfrecords, LAMBDA tfr : tfr \in Range(plan))
      NotIn(plan) == SelectSeq(tfrecords, LAMBDA tfr : tfr \notin Range(plan))
      split_records == split(tfrecords, k_fold)
      others == [j \in 1..k_fold |->
                   IF j = k_fold_index[1] + 1 THEN <<>> ELSE split_records[j]]
  IN  CASE val_strategy = "bootstrap" ->
             [log |-> log, reused |-> FALSE, outcome |-> "returned",
              training |-> Slice(tfrecords, num_val, n),
              validation |-> Slice(tfrecords, 0, num_val)]
        [] val_strategy = "fixed" ->
             IF FixedPlanValid(log, slides, num_val)
             THEN [log |-> log, reused |-> TRUE, outcome |-> "returned",
                   training |-> NotIn(log.fixed[1]),
                   validation |-> In(log.fixed[1])]
             ELSE [log |-> [exists |-> TRUE,
                            fixed |-> <<Slice(tfrecords, 0, num_val)>>,
                            kfold |-> load_json(log).kfold],
                   reused |-> FALSE, outcome |-> "returned",
                   training |-> Slice(tfrecords, num_val, n),
                   validation |-> Slice(tfrecords, 0, num_val)]
        [] val_strategy = "k-fold" ->
             IF k_fold_index = <<>>
             THEN [log |-> log, reused |-> FALSE, outcome |-> "raised",
                   training |-> <<>>, validation |-> <<>>]
             ELSE IF KFoldPlanValid(log, slides, k_fold, n)
             THEN [log |-> log, reused |-> TRUE, outcome |-> "returned",
                   training |-> SelectSeq(NotIn(log.kfold[1][k_fold_index[1] + 1]),
                                          LAMBDA tfr : tfr \in Range(Flatten(log.kfold[1]))),
                   validation |-> In(log.kfold[1][k_fold_index[1] + 1])]
             ELSE [log |-> [exists |-> TRUE, fixed |-> load_json(log).fixed,
                            kfold |-> <<split_records>>],
                   reused |-> FALSE, outcome |-> "returned",
                   training |-> Flatten(others),
                   validation |-> split_records[k_fold_index[1] + 1]]
        [] OTHER ->
             [log |-> log, reused |-> FALSE, outcome |-> "returned",
              training |-> tfrecords, validation |-> <<>>]

VpInit ==
  /\ SkIdle /\ OrIdle /\ PrIdle /\ CtIdle /\ NmIdle /\ WgIdle /\ MfIdle /\ GpIdle
  /\ vp_tfrecords \in SUBSET RecordNames
  /\ vp_unfinished = {}
  /\ validation_log = NoLog
  /\ vp_origin = [fixed |-> <<>>, kfold |-> <<>>]
  /\ vp_calls = 0
  /\ vp_ret = NoRet
  /\ vp_twin = NoTwin
  /\ split_a = <<>>
  /\ split_n = 1
  /\ split_ret = <<>>

\* an extraction ends: one more record file in the directory
VpRecordWritten(r) ==
  /\ ~ vp_ret.call
  /\ r \notin vp_tfrecords
  /\ vp_tfrecords' = vp_tfrecords \cup {r}
  /\ UNCHANGED <<vp_unfinished, validation_log, vp_origin, vp_calls, vp_ret, vp_twin,
                 split_a, split_n, split_ret, vpOthers>>

VpRecordRemoved(r) ==
  /\ ~ vp_ret.call
  /\ r \in vp_tfrecords
  /\ vp_tfrecords' = vp_tfrecords \ {r}
  /\ vp_unfinished' = vp_unfinished \ {r}
  /\ UNCHANGED <<validation_log, vp_origin, vp_calls, vp_ret, vp_twin, split_a, split_n,
                 split_ret, vpOthers>>

VpCall(slides, val_strategy, val_fraction, k_fold, k_fold_iter, tfrecords) ==
  LET out == PlanCall(validation_log, slides, val_strategy, val_fraction, k_fold,
                      KFoldIndex(k_fold_iter), tfrecords)
      \* the records and the parameter a plan made now comes from, and those
      \* the stored plan of the strategy came from
      now == [records |-> Range(tfrecords),
              param |-> IF val_strategy = "fixed" THEN val_fraction ELSE <<k_fold, 1>>]
      was == IF val_strategy = "fixed" THEN vp_origin.fixed
             ELSE IF val_strategy = "k-fold" THEN vp_origin.kfold ELSE <<>>
  IN  /\ ~ vp_ret.call
      /\ vp_calls < MaxCalls
      /\ vp_calls' = vp_calls + 1
      /\ tfrecords \in Shuffles(vp_tfrecords \cap slides)
      /\ validation_log' = out.log
      /\ vp_origin' =
           IF out.reused \/ out.outcome = "raised" \/ val_strategy \notin {"fixed", "k-fold"}
           THEN vp_origin
           ELSE IF val_strategy = "fixed" THEN [vp_origin EXCEPT !.fixed = <<now>>]
           ELSE [vp_origin EXCEPT !.kfold = <<now>>]
      /\ vp_ret' =
           [call |-> TRUE, target |-> "per-slide", strategy |-> val_strategy,
            frac |-> val_fraction, k |-> k_fold, iter |-> k_fold_iter,
            index |-> KFoldIndex(k_fold_iter), dirs |-> NoLayout, outcome |-> out.outcome,
            slides |-> slides, records |-> Range(tfrecords),
            unfinished |-> vp_unfinished, reused |-> out.reused,
            kept |-> (out.log = validation_log),
            other |-> (CASE val_strategy = "fixed" -> out.log.kfold = validation_log.kfold
                         [] val_strategy = "k-fold" -> out.log.fixed = validation_log.fixed
                         [] OTHER -> out.log = validation_log),
            unchanged |-> (was = <<now>>),
            differs |-> (was # <<>> /\ was # <<now>> /\
                         (val_strategy = "k-fold" \/ was[1].records # now.records)),
            training |-> out.training, validation |-> out.validation]
      /\ UNCHANGED <<vp_tfrecords, vp_unfinished, vp_twin, split_a, split_n, split_ret,
                     vpOthers>>

\* the arguments a call is made with: the fraction counts for 'bootstrap' and
\* 'fixed' only, the folds for 'k-fold' only (else they are the project's)
VpCallAny ==
  \E slides \in SlideLists, val_strategy \in Strategies :
    \E val_fraction \in IF val_strategy \in {"bootstrap", "fixed"}
                         THEN Fractions ELSE {<<1, 2>>},
       k_fold \in IF val_strategy = "k-fold" THEN 2..MaxFolds ELSE {2} :
      \E k_fold_iter \in IF val_strategy = "k-fold" THEN 0..k_fold ELSE {1},
         tfrecords \in Shuffles(vp_tfrecords \cap slides) :
        VpCall(slides, val_strategy, val_fraction, k_fold, k_fold_iter, tfrecords)

\* the caller goes on with the two lists
VpReturn ==
  /\ vp_ret.call
  /\ vp_ret' = NoRet
  /\ UNCHANGED <<vp_tfrecords, vp_unfinished, validation_log, vp_origin, vp_calls, vp_twin,
                 split_a, split_n, split_ret, vpOthers>>

VpNext ==
  \/ \E r \in RecordNames : VpRecordWritten(r)
  \/ \E r \in RecordNames : VpRecordRemoved(r)
  \/ VpCallAny
  \/ VpReturn

SpecPlan == VpInit /\ [][VpNext]_vars

\* C11: when the stored plan of the strategy came from the same records and the
\* same fraction or fold count, the call takes it: it returns the stored
\* validation records of the split or fold asked for, and leaves the file as it was.
C11_ReuseUnchanged ==
  (vp_ret.call /\ vp_ret.unchanged /\ vp_ret.index # <<>>) =>
    /\ vp_ret.reused
    /\ vp_ret.kept
    /\ Len(vp_ret.validation) = Cardinality(Range(vp_ret.validation))
    /\ Range(vp_ret.validation) =
         IF vp_ret.strategy = "fixed" THEN Range(validation_log.fixed[1])
         ELSE Range(validation_log.kfold[1][vp_ret.index[1] + 1])
    /\ Range(vp_ret.training) = vp_ret.records \ Range(vp_ret.validation)

C11_Witness ==
  /\ vp_ret.call
  /\ vp_ret.unchanged
  /\ vp_ret.reused
  /\ vp_ret.strategy = "k-fold"
  /\ vp_ret.validation # <<>>
  /\ vp_ret.training # <<>>

\* C12: a call that finds a stored plan for its strategy made from other records,
\* or from another number of folds, does not take that plan.
C12_RegenerateOnDifference ==
  (vp_ret.call /\ vp_ret.differs) => ~ vp_ret.reused

\* C28: when a call takes the stored plan (fixed or k-fold), the two lists it
\* returns share no record, together they hold every current record, and the
\* validation list holds every record of the stored validation split or fold.
C28_ReusedPlanCovers ==
  (vp_ret.call /\ vp_ret.reused) =>
    /\ Range(vp_ret.training) \cap Range(vp_ret.validation) = {}
    /\ Range(vp_ret.training) \cup Range(vp_ret.validation) = vp_ret.records
    /\ IF vp_ret.strategy = "fixed"
       THEN Range(validation_log.fixed[1]) \subseteq Range(vp_ret.validation)
       ELSE Range(validation_log.kfold[1][vp_ret.index[1] + 1])
              \subseteq Range(vp_ret.validation)

\* C32: a k-fold plan newly made for iteration i of k has k folds holding every
\* record, whatever i is; the validation list returned is fold i-1 and the
\* training list is the other folds one after the other.
C32_FoldOfIteration ==
  (vp_ret.call /\ vp_ret.target = "per-slide" /\ vp_ret.strategy = "k-fold" /\
   vp_ret.iter \in 1..vp_ret.k /\ ~ vp_ret.reused) =>
    /\ vp_ret.outcome = "returned"
    /\ validation_log.kfold # <<>>
    /\ LET folds == validation_log.kfold[1]
       IN  /\ Len(folds) = vp_ret.k
           /\ Range(Flatten(folds)) = vp_ret.records
           /\ vp_ret.validation = folds[vp_ret.iter]
           /\ vp_ret.training =
                Flatten([j \in 1..vp_ret.k |-> IF j = vp_ret.iter THEN <<>> ELSE folds[j]])

\* a new plan of three folds over three records, made for the second iteration
C32_Witness ==
  /\ vp_ret.call
  /\ vp_ret.strategy = "k-fold"
  /\ ~ vp_ret.reused
  /\ vp_ret.k = 3
  /\ vp_ret.iter = 2
  /\ Cardinality(vp_ret.records) = 3
  /\ Len(vp_ret.validation) = 1
  /\ Len(vp_ret.training) = 2

\* C34: a call that writes a new plan for one strategy leaves the entry of the
\* other strategy in the file as it was, and a call for 'bootstrap' or 'none'
\* leaves the whole file as it was.
C34_OtherPlanKept ==
  vp_ret.call => vp_ret.other

\* a new 'fixed' plan is written to a file that holds a 'k-fold' plan, or a
\* new 'k-fold' plan to a file that holds a 'fixed' plan
C34_Witness ==
  /\ vp_ret.call
  /\ vp_ret.outcome = "returned"
  /\ ~ vp_ret.reused
  /\ ~ vp_ret.kept
  /\ vp_ret.other
  /\ validation_log.fixed # <<>>
  /\ validation_log.kfold # <<>>
  /\ vp_calls = MaxCalls

\* C13: a newly made plan puts every record in exactly one partition: the two
\* lists returned share no record and hold the records exactly once, and so do
\* the folds written for k-fold.
C13_PartitionCoverage ==
  (vp_ret.call /\ ~ vp_ret.reused /\ vp_ret.outcome = "returned" /\
   vp_ret.strategy \in {"bootstrap", "fixed", "k-fold"}) =>
    /\ Range(vp_ret.training) \cap Range(vp_ret.validation) = {}
    /\ Range(vp_ret.training) \cup Range(vp_ret.validation) = vp_ret.records
    /\ Len(vp_ret.training) + Len(vp_ret.validation) = Cardinality(vp_ret.records)
    /\ vp_ret.strategy = "k-fold" =>
         /\ Range(Flatten(validation_log.kfold[1])) = vp_ret.records
         /\ Len(Flatten(validation_log.kfold[1])) = Cardinality(vp_ret.records)

C13_Witness ==
  /\ vp_ret.call
  /\ ~ vp_ret.reused
  /\ vp_ret.strategy = "k-fold"
  /\ Cardinality(vp_ret.records) = 3
  /\ vp_ret.validation # <<>>
  /\ validation_log.kfold # <<>>

\* ------------------------------------------------------------ split(a, n)
MaxRecords == 10

MaxSplitFolds == 5

SplitInit ==
  /\ SkIdle /\ OrIdle /\ PrIdle /\ CtIdle /\ NmIdle /\ WgIdle /\ MfIdle /\ GpIdle
  /\ vp_tfrecords = {}
  /\ vp_unfinished = {}
  /\ validation_log = NoLog
  /\ vp_origin = [fixed |-> <<>>, kfold |-> <<>>]
  /\ vp_calls = 0
  /\ vp_ret = NoRet
  /\ vp_twin = NoTwin
  /\ split_a \in {[j \in 1..n |-> j] : n \in 0..MaxRecords}
  /\ split_n \in 1..MaxSplitFolds
  /\ split_ret = <<>>

SplitCall ==
  /\ split_ret = <<>>
  /\ split_ret' = <<split(split_a, split_n)>>
  /\ UNCHANGED <<vp_tfrecords, vp_unfinished, validation_log, vp_origin, vp_calls, vp_ret,
                 vp_twin, split_a, split_n, vpOthers>>

SpecSplit == SplitInit /\ [][SplitCall]_vars

\* C14: split gives n folds that are the list cut in order; fold i (from 0) has
\* floor(len/n) + 1 elements when i < len mod n, and floor(len/n) otherwise.
C14_FoldSizes ==
  split_ret # <<>> =>
    LET folds == split_ret[1]
    IN  /\ Len(folds) = split_n
        /\ \A i \in 0..(split_n - 1) :
             Len(folds[i + 1]) =
               (Len(split_a) \div split_n) + (IF i < Len(split_a) % split_n THEN 1 ELSE 0)
        /\ Flatten(folds) = split_a

C14_Witness ==
  /\ split_ret # <<>>
  /\ Len(split_a) = 10
  /\ split_n = 3
  /\ Len(split_ret[1][1]) = 4
  /\ Len(split_ret[1][2]) = 3
  /\ Len(split_ret[1][3]) = 3

\* ----------------------------------- a first call, and the same call again
FreshInit ==
  /\ SkIdle /\ OrIdle /\ PrIdle /\ CtIdle /\ NmIdle /\ WgIdle /\ MfIdle /\ GpIdle
  /\ vp_tfrecords \in SUBSET RecordNames
  /\ vp_unfinished \in SUBSET vp_tfrecords
  /\ validation_log = NoLog
  /\ vp_origin = [fixed |-> <<>>, kfold |-> <<>>]
  /\ vp_calls = 0
  /\ vp_ret = NoRet
  /\ vp_twin = NoTwin
  /\ split_a = <<>>
  /\ split_n = 1
  /\ split_ret = <<>>

\* the call that has returned, made once more over the same records with no plan file
VpTwinCall(tfrecords) ==
  LET out == PlanCall(NoLog, vp_ret.slides, vp_ret.strategy, vp_ret.frac, vp_ret.k,
                      vp_ret.index, tfrecords)
  IN  /\ vp_ret.call
      /\ ~ vp_twin.call
      /\ tfrecords \in Shuffles(vp_tfrecords \cap vp_ret.slides)
      /\ vp_twin' = [call |-> TRUE, log |-> out.log, training |-> out.training,
                     validation |-> out.validation]
      /\ UNCHANGED <<vp_tfrecords, vp_unfinished, validation_log, vp_origin, vp_calls, vp_ret,
                     split_a, split_n, split_ret, vpOthers>>

FreshNext ==
  \/ VpCallAny
  \/ \E tfrecords \in Shuffles(vp_tfrecords \cap vp_ret.slides) : VpTwinCall(tfrecords)

SpecFresh == FreshInit /\ [][FreshNext]_vars

\* C15: with no plan file, two calls over the same records with the same 'fixed'
\* or 'k-fold' arguments leave the same plan.
C15_SamePlanTwice ==
  (vp_ret.call /\ vp_twin.call /\ vp_ret.strategy \in {"fixed", "k-fold"}) =>
    vp_twin.log = validation_log

\* C16: no record that has an '.unfinished' marker is returned for training or
\* validation, or written to the plan.
C16_UnfinishedLeftOut ==
  vp_ret.call =>
    /\ (Range(vp_ret.training) \cup Range(vp_ret.validation)) \cap vp_ret.unfinished = {}
    /\ validation_log.fixed # <<>> =>
         Range(validation_log.fixed[1]) \cap vp_ret.unfinished = {}
    /\ validation_log.kfold # <<>> =>
         Range(Flatten(validation_log.kfold[1])) \cap vp_ret.unfinished = {}

\* ------------------------- get_training_and_validation_tfrecords (per-tile)
\* the directory of a dataset whose records were split when they were written:
\* 'training' and 'validation' subdirectories, or kfold-0, kfold-1, ...
Layouts(S) ==
  {NoLayout}
    \cup {[split |-> <<<<Slice(t, 1, Len(t)), Slice(t, 0, 1)>>>>, kfold |-> <<>>] :
            t \in Shuffles(S)}
    \cup {[split |-> <<>>, kfold |-> split(t, n)] : t \in Shuffles(S), n \in 1..MaxFolds}

\* the function for val_target = 'per-tile': how it ends and what it returns.
\* For kfold-<k> in turn: sys.exit when the directory is missing, then
\* 'if k == k_fold_index', which raises UnboundLocalError while the name is unbound
PerTileCall(slides, val_strategy, k_fold, k_fold_iter, dirs) ==
  LET k_fold_index == KFoldIndex(k_fold_iter)
      \* if not k_fold_iter: 'assuming iteration #1'; k_fold_iter = 1
      iter == IF k_fold_iter = 0 THEN 1 ELSE k_fold_iter
      Listed(l) == SelectSeq(l, LAMBDA tfr : tfr \in slides)
      others == [j \in 1..k_fold |-> IF j = k_fold_index[1] + 1 THEN <<>> ELSE dirs.kfold[j]]
      end(how) == [outcome |-> how, training |-> <<>>, validation |-> <<>>]
  IN  CASE val_strategy \in {"bootstrap", "fixed"} ->
             IF dirs.split = <<>> THEN end("exit")
             ELSE [outcome |-> "returned",
                   training |-> Listed(dirs.split[1][1]),
                   validation |-> Listed(dirs.split[1][2])]
        [] val_strategy = "k-fold" ->
             IF iter > k_fold \/ dirs.kfold = <<>> THEN end("exit")
             ELSE IF k_fold_index = <<>> THEN end("raised")
             ELSE IF Len(dirs.kfold) < k_fold THEN end("exit")
             ELSE [outcome |-> "returned",
                   training |-> Listed(Flatten(others)),
                   validation |-> Listed(dirs.kfold[k_fold_index[1] + 1])]
        [] OTHER ->
             IF dirs # NoLayout THEN end("exit") ELSE end("returned")

VpCallPerTile(slides, val_strategy, k_fold, k_fold_iter, dirs) ==
  LET out == PerTileCall(slides, val_strategy, k_fold, k_fold_iter, dirs)
  IN  /\ ~ vp_ret.call
      /\ vp_calls < MaxCalls
      /\ vp_calls' = vp_calls + 1
      /\ dirs \in Layouts(vp_tfrecords)
      /\ vp_ret' =
           [call |-> TRUE, target |-> "per-tile", strategy |-> val_strategy,
            frac |-> <<1, 2>>, k |-> k_fold, iter |-> k_fold_iter,
            index |-> KFoldIndex(k_fold_iter), dirs |-> dirs, outcome |-> out.outcome,
            slides |-> slides, records |-> vp_tfrecords \cap slides,
            unfinished |-> vp_unfinished, reused |-> FALSE, kept |-> TRUE,
            other |-> TRUE, unchanged |-> FALSE, differs |-> FALSE,
            training |-> out.training, validation |-> out.validation]
      /\ UNCHANGED <<vp_tfrecords, vp_unfinished, validation_log, vp_origin, vp_twin,
                     split_a, split_n, split_ret, vpOthers>>

\* the arguments a call is made with: the folds and the iteration count for
\* 'k-fold' only; k_fold_iter is 0 when none is given
VpCallPerTileAny ==
  \E slides \in SlideLists, val_strategy \in Strategies :
    \E k_fold \in IF val_strategy = "k-fold" THEN 2..MaxFolds ELSE {2} :
      \E k_fold_iter \in IF val_strategy = "k-fold" THEN 0..MaxFolds ELSE {0},
         dirs \in Layouts(vp_tfrecords) :
        VpCallPerTile(slides, val_strategy, k_fold, k_fold_iter, dirs)

PerTileNext ==
  \/ VpCallPerTileAny
  \/ VpReturn

SpecPerTile == VpInit /\ [][PerTileNext]_vars

\* C33: a k-fold call with no iteration given raises no error: it returns the
\* records of fold 0 (per-tile: of the directory kfold-0, when the k_fold
\* directories exist) for validation and those of the other folds for training.
C33_AssumesFirstIteration ==
  (vp_ret.call /\ vp_ret.strategy = "k-fold" /\ vp_ret.iter = 0 /\
   (vp_ret.target = "per-tile" => Len(vp_ret.dirs.kfold) >= vp_ret.k)) =>
    /\ vp_ret.outcome = "returned"
    /\ LET folds == IF vp_ret.target = "per-tile" THEN vp_ret.dirs.kfold
                    ELSE validation_log.kfold[1]
           Listed(l) == SelectSeq(l, LAMBDA tfr : tfr \in vp_ret.slides)
       IN  /\ vp_ret.validation = Listed(folds[1])
           /\ vp_ret.training =
                Listed(Flatten([j \in 1..vp_ret.k |-> IF j = 1 THEN <<>> ELSE folds[j]]))

\* ------------------------------------------ norm/torch/reinhard.py (one channel)
\* A tile is a row of gray pixels (R = G = B), and the model follows the
\* lightness channel I1; the channels I2 and I3 go through the same norm.
\* A float is <<v, 1>>, the number v / Unit, or <<1, 0>> (inf), <<-1, 0>>
\* (-inf), <<0, 0>> (nan).
MaxPixels == 2

Unit == 100

NaN == <<0, 0>>

\* the tiles given to transform: dark, light and white pixels
Tiles == UNION {[1..n -> {51, 204, 255}] : n \in 1..MaxPixels}

\* the images a normalizer is fitted to, and the images given as context
Images == {<<255, 255>>, <<51, 204>>, <<51, 255>>, <<204, 204>>}

\* mask_threshold in hundredths
Thresholds == {0, 50, 93, 100}

\* what the conversion of a nan to uint8 may give
NanCasts == {0, 255}

Sign(n) == IF n > 0 THEN 1 ELSE IF n < 0 THEN -1 ELSE 0

FAdd(a, b) ==
  IF a[2] = 1 /\ b[2] = 1 THEN <<a[1] + b[1], 1>>
  ELSE IF a[2] = 1 THEN b
  ELSE IF b[2] = 1 \/ a = b THEN a
  ELSE NaN

FMul(a, b) ==
  IF a[2] = 1 /\ b[2] = 1 THEN <<(a[1] * b[1]) \div Unit, 1>>
  ELSE <<Sign(a[1]) * Sign(b[1]), 0>>

\* a / b for finite or nan a and b: x / 0 is inf, -inf or (0 / 0) nan
FDiv(a, b) ==
  IF a[2] = 1 /\ b[2] = 1 /\ b[1] # 0 THEN <<(a[1] * Unit) \div b[1], 1>>
  ELSE IF a[2] = 0 \/ b[2] = 0 THEN NaN
  ELSE <<Sign(a[1]), 0>>

RECURSIVE SqrtBetween(_, _, _)
SqrtBetween(x, lo, hi) ==
  IF lo >= hi THEN lo
  ELSE LET mid == (lo + hi + 1) \div 2
       IN  IF mid * mid <= x THEN SqrtBetween(x, mid, hi) ELSE SqrtBetween(x, lo, mid - 1)

FSqrt(a) == IF a[2] = 1 /\ a[1] >= 0 THEN <<SqrtBetween(a[1] * Unit, 0, 46340), 1>> ELSE NaN

\* I /= 255, rgb_to_lab: the lightness of a gray pixel, from 0 to 100
lab_split(g) == <<(g * 100 * Unit) \div 255, 1>>

\* lab_to_rgb(...) * 255, torch.clip(merged, min=0, max=255).to(torch.uint8)
Clipped(v, cast) ==
  IF v = NaN THEN cast
  ELSE IF v[2] = 0 THEN (IF v[1] > 0 THEN 255 ELSE 0)
  ELSE IF v[1] >= 100 * Unit THEN 255
  ELSE IF v[1] <= 0 THEN 0
  ELSE (v[1] * 255) \div (100 * Unit)

RECURSIVE FSum(_)
FSum(xs) == IF xs = <<>> THEN <<0, 1>> ELSE FAdd(Head(xs), FSum(Tail(xs)))

\* torch.mean and torch.std (unbiased) of the values xs
MeanStd(xs) ==
  LET n == Len(xs)
      mean == FDiv(FSum(xs), <<n * Unit, 1>>)
      dev == [i \in 1..n |-> FAdd(xs[i], <<-mean[1], mean[2]>>)]
      sq == [i \in 1..n |-> FMul(dev[i], dev[i])]
      \* the divisor of the unbiased estimate is max(0, n - 1)
      dof == IF n > 1 THEN n - 1 ELSE 0
  IN  [means |-> mean, stds |-> FSqrt(FDiv(FSum(sq), <<dof * Unit, 1>>))]

\* the statistics of every tile of the batch pooled, for each tile
get_mean_stdPooled(I1, reduce) ==
  [b \in 1..Len(I1) |-> MeanStd(Flatten(I1))]

\* get_mean_std(I1, I2, I3, reduce): the statistics over dim=(1, 2) of each
\* image of the batch I1; with reduce their averages over the batch
get_mean_std(I1, reduce) ==
  LET per == [b \in 1..Len(I1) |-> MeanStd(I1[b])]
      avg(xs) == FDiv(FSum(xs), <<Len(xs) * Unit, 1>>)
  IN  IF reduce
      THEN [b \in 1..Len(I1) |->
              [means |-> avg([c \in 1..Len(I1) |-> per[c].means]),
               stds |-> avg([c \in 1..Len(I1) |-> per[c].stds])]]
      ELSE per

\* ones = torch.all(I == 255, dim=3); the statistics of the pixels left
get_masked_mean_std(I) ==
  MeanStd([i \in 1..Len(SelectSeq(I, LAMBDA g : g # 255)) |->
                  lab_split(SelectSeq(I, LAMBDA g : g # 255)[i])])

\* (a transform that takes whatever context it is given)
RejectedNever(ctx_mean, ctx_std) == FALSE

\* 'if ctx_mean is None and ctx_std is not None' and 'if ctx_std is None and
\* ctx_mean is not None': raise ValueError
Rejected(ctx_mean, ctx_std) ==
  \/ ctx_mean = <<>> /\ ctx_std # <<>>
  \/ ctx_std = <<>> /\ ctx_mean # <<>>

\* transform(I, tgt_mean, tgt_std, ctx_mean, ctx_std, mask_threshold) of the
\* batch I of tiles; ctx_mean, ctx_std and mask_threshold are <<>> for None
transform(I, tgt_mean, tgt_std, ctx_mean, ctx_std, mask_threshold, cast) ==
  LET B == 1..Len(I)
      ctx == IF ctx_mean # <<>> /\ ctx_std # <<>>
             THEN <<[means |-> ctx_mean[1], stds |-> ctx_std[1]]>> ELSE <<>>
      I1 == [b \in B |-> [i \in 1..Len(I[b]) |-> lab_split(I[b][i])]]
      src == IF ctx # <<>> THEN [b \in B |-> ctx[1]] ELSE get_mean_std(I1, FALSE)
      part2 == [b \in B |-> FDiv(tgt_std, src[b].stds)]
      norm(b, x) ==
        FAdd(FMul(FAdd(x, <<-src[b].means[1], src[b].means[2]>>), part2[b]), tgt_mean)
      masking == mask_threshold # <<>> /\ mask_threshold[1] # 0
      mask(b, i) == I1[b][i][1] < mask_threshold[1] * Unit
  IN  [out |-> [b \in B |-> [i \in 1..Len(I[b]) |->
                  IF masking /\ ~ mask(b, i) THEN I[b][i]
                  ELSE Clipped(norm(b, I1[b][i]), cast)]],
       raised |-> Rejected(ctx_mean, ctx_std),
       mean |-> [b \in B |-> src[b].means],
       std |-> [b \in B |-> src[b].stds],
       scale |-> part2,
       nan |-> [b \in B |-> \E i \in 1..Len(I[b]) :
                               (masking => mask(b, i)) /\ norm(b, I1[b][i]) = NaN]]

\* utils.standardize_brightness(I, mask) on one image: the pixels are scaled so
\* that their 90th percentile becomes 255; with mask the white pixels are left
\* out of the percentile and stay white
standardize_brightness(I, mask) ==
  LET kept == SelectSeq(I, LAMBDA g : ~ mask \/ g # 255)
      n == Len(kept)
      sorted == CHOOSE s \in [1..n -> Range(kept)] :
                  /\ \A i \in 1..(n - 1) : s[i] <= s[i + 1]
                  /\ \A g \in Range(kept) : Cardinality({i \in 1..n : s[i] = g})
                                               = Cardinality({i \in 1..n : kept[i] = g})
      pos == 9 * (n - 1)
      lo == pos \div 10 + 1
      p10 == 10 * sorted[lo]
             + (pos % 10) * (IF lo < n THEN sorted[lo + 1] - sorted[lo] ELSE 0)
  IN  IF n = 0 THEN I
      ELSE [i \in 1..Len(I) |->
              IF mask /\ I[i] = 255 THEN 255 ELSE Min(255, (I[i] * 2550) \div p10)]

\* ReinhardNormalizer.transform: standardize_brightness(I), mask left at its default
TransformStandardized(I) == standardize_brightness(I, FALSE)

\* ReinhardFastNormalizer(), ReinhardFastMaskNormalizer(threshold),
\* ReinhardNormalizer(), ReinhardMaskNormalizer(threshold)
NmInit ==
  /\ SkIdle /\ OrIdle /\ PrIdle /\ CtIdle /\ VpIdle /\ WgIdle /\ MfIdle /\ GpIdle
  /\ threshold \in {<<>>} \cup {<<t>> : t \in Thresholds}
  /\ target_means = <<72 * Unit, 1>>
  /\ target_stds = <<16 * Unit, 1>>
  /\ ctx_means = <<>>
  /\ ctx_stds = <<>>
  /\ nm_scope = "out"
  /\ nm_standard \in BOOLEAN
  /\ nm_last = NoEvent

\* fit(target, mask): no error is raised on any path
NmFit(target, mask) ==
  LET sb == IF nm_standard THEN standardize_brightness(target, mask) ELSE target
      fitted == IF mask THEN get_masked_mean_std(sb)
                ELSE get_mean_std(<<[i \in 1..Len(sb) |-> lab_split(sb[i])]>>, FALSE)[1]
  IN  /\ nm_last.op = "none"
      /\ target_means' = fitted.means
      /\ target_stds' = fitted.stds
      /\ nm_last' = [NoEvent EXCEPT !.op = "fit", !.masked = mask, !.I = target, !.sb = sb,
                       !.blank = (\A i \in 1..Len(target) : target[i] = 255),
                       !.kept = (fitted.means = target_means /\ fitted.stds = target_stds)]
      /\ UNCHANGED <<threshold, ctx_means, ctx_stds, nm_scope, nm_standard, nmOthers>>

SetContext(I, op) ==
  LET sb == IF nm_standard THEN standardize_brightness(I, TRUE) ELSE I
      fitted == get_masked_mean_std(sb)
  IN  /\ ctx_means' = <<fitted.means>>
      /\ ctx_stds' = <<fitted.stds>>
      /\ nm_last' = [NoEvent EXCEPT !.op = op, !.masked = TRUE, !.I = I, !.sb = sb,
                       !.blank = (\A i \in 1..Len(I) : I[i] = 255),
                       !.kept = (ctx_means = <<fitted.means>> /\ ctx_stds = <<fitted.stds>>)]

NmSetContext(I) ==
  /\ nm_last.op = "none"
  /\ SetContext(I, "set_context")
  /\ UNCHANGED <<threshold, target_means, target_stds, nm_scope, nm_standard, nmOthers>>

NmClearContext ==
  /\ nm_last.op = "none"
  /\ ctx_means' = <<>>
  /\ ctx_stds' = <<>>
  /\ nm_last' = [NoEvent EXCEPT !.op = "clear_context"]
  /\ UNCHANGED <<threshold, target_means, target_stds, nm_scope, nm_standard, nmOthers>>

\* with normalizer.image_context(I): the generator runs to its yield
NmEnter(I) ==
  /\ nm_last.op = "none"
  /\ nm_scope = "out"
  /\ SetContext(I, "enter")
  /\ nm_scope' = "in"
  /\ UNCHANGED <<threshold, target_means, target_stds, nm_standard, nmOthers>>

\* the body ends: the generator is resumed and runs clear_context
NmExit ==
  /\ nm_last.op = "none"
  /\ nm_scope = "in"
  /\ ctx_means' = <<>>
  /\ ctx_stds' = <<>>
  /\ nm_scope' = "out"
  /\ nm_last' = [NoEvent EXCEPT !.op = "exit"]
  /\ UNCHANGED <<threshold, target_means, target_stds, nm_standard, nmOthers>>

\* the body raises: the exception is thrown into the generator at its yield,
\* which is in no try, so the generator ends there
NmRaise ==
  /\ nm_last.op = "none"
  /\ nm_scope = "in"
  /\ nm_scope' = "out"
  /\ nm_last' = [NoEvent EXCEPT !.op = "raise", !.raised = TRUE]
  /\ UNCHANGED <<threshold, target_means, target_stds, ctx_means, ctx_stds, nm_standard,
                 nmOthers>>

\* (the arguments passed to transform going before the context that is set)
get_context_meansPassed(stored, passed) ==
  IF passed[1] # <<>> /\ passed[2] # <<>> THEN passed ELSE stored

\* _get_context_means(ctx_means, ctx_stds): the stored context when both of its
\* parts are set, else the arguments as they were passed
get_context_means(stored, passed) ==
  IF stored[1] # <<>> /\ stored[2] # <<>> THEN stored ELSE passed

\* the statistics a caller passes to transform as ctx_means and ctx_stds
PassedMeans == {<<>>, <<<<40 * Unit, 1>>>>}

PassedStds == {<<>>, <<<<30 * Unit, 1>>>>}

\* ut.fit_presets[...][preset]
fit_presets(preset) ==
  IF preset = "v1" THEN [target_means |-> <<72 * Unit, 1>>, target_stds |-> <<16 * Unit, 1>>]
  ELSE [target_means |-> <<64 * Unit, 1>>, target_stds |-> <<20 * Unit, 1>>]

\* (a set_fit that stores the means and leaves the stds of the fit before)
NmSetFitMeansOnly(means, stds, op) ==
  /\ nm_last.op = "none"
  /\ target_means' = means
  /\ nm_last' = [NoEvent EXCEPT !.op = op, !.args = <<<<means>>, <<stds>>>>,
                   !.kept = (means = target_means)]
  /\ UNCHANGED <<threshold, target_stds, ctx_means, ctx_stds, nm_scope, nm_standard,
                 nmOthers>>

\* set_fit(target_means, target_stds)
NmSetFit(means, stds, op) ==
  /\ nm_last.op = "none"
  /\ target_means' = means
  /\ target_stds' = stds
  /\ nm_last' = [NoEvent EXCEPT !.op = op, !.args = <<<<means>>, <<stds>>>>,
                   !.kept = (means = target_means /\ stds = target_stds)]
  /\ UNCHANGED <<threshold, ctx_means, ctx_stds, nm_scope, nm_standard, nmOthers>>

\* fit_preset(preset): self.set_fit(**_fit)
NmFitPreset(preset) ==
  NmSetFit(fit_presets(preset).target_means, fit_presets(preset).target_stds, "fit_preset")

\* transform(I, ctx_means, ctx_stds) of a normalizer, I one tile
\* (len(I.shape) == 3): the batch of this tile alone is transformed
NmTransform(I, a_means, a_stds, cast) ==
  LET ctx == get_context_means(<<ctx_means, ctx_stds>>, <<a_means, a_stds>>)
      sb == IF nm_standard THEN TransformStandardized(I) ELSE I
      t == transform(<<sb>>, target_means, target_stds, ctx[1], ctx[2], threshold, cast)
  IN  /\ nm_last.op = "none"
      /\ nm_last' =
           IF t.raised
           THEN [NoEvent EXCEPT !.op = "transform", !.I = I, !.sb = sb, !.raised = TRUE,
                   !.args = <<a_means, a_stds>>]
           ELSE [NoEvent EXCEPT !.op = "transform", !.I = I, !.sb = sb,
                   !.out = t.out[1], !.std = t.std[1], !.scale = t.scale[1],
                   !.nan = t.nan[1], !.args = <<a_means, a_stds>>, !.mean = t.mean[1]]
      /\ UNCHANGED <<threshold, target_means, target_stds, ctx_means, ctx_stds, nm_scope,
                     nm_standard, nmOthers>>

\* transform(I) of a normalizer, I a batch of tiles
NmTransformBatch(I, cast) ==
  LET ctx == get_context_means(<<ctx_means, ctx_stds>>, <<<<>>, <<>>>>)
      sb == IF nm_standard THEN [b \in 1..Len(I) |-> TransformStandardized(I[b])] ELSE I
      t == transform(sb, target_means, target_stds, ctx[1], ctx[2], threshold, cast)
  IN  /\ nm_last.op = "none"
      \* the tiles of a batch have one shape
      /\ \A b \in 1..Len(I) : Len(I[b]) = Len(I[1])
      /\ nm_last' = [NoEvent EXCEPT !.op = "transform_batch", !.I = I, !.sb = sb,
                       !.out = t.out]
      /\ UNCHANGED <<threshold, target_means, target_stds, ctx_means, ctx_stds, nm_scope,
                     nm_standard, nmOthers>>

\* the caller goes on
NmReturn ==
  /\ nm_last.op # "none"
  /\ nm_last' = NoEvent
  /\ UNCHANGED <<threshold, target_means, target_stds, ctx_means, ctx_stds, nm_scope,
                 nm_standard, nmOthers>>

NmNext ==
  \/ \E target \in Images, mask \in BOOLEAN : NmFit(target, mask)
  \/ \E I \in Images : NmSetContext(I)
  \/ NmClearContext
  \/ \E I \in Images : NmEnter(I)
  \/ NmExit
  \/ NmRaise
  \/ \E I \in Tiles, cast \in NanCasts : NmTransform(I, <<>>, <<>>, cast)
  \/ \E I \in Tiles, J \in Images, cast \in NanCasts : NmTransformBatch(<<I, J>>, cast)
  \/ NmReturn

SpecNorm == NmInit /\ [][NmNext]_vars

\* ---------------------------------- a normalizer: its fit and its context
\* ReinhardFastNormalizer() or ReinhardNormalizer(): no mask threshold
FitInit ==
  /\ SkIdle /\ OrIdle /\ PrIdle /\ CtIdle /\ VpIdle /\ WgIdle /\ MfIdle /\ GpIdle
  /\ threshold = <<>>
  /\ target_means = fit_presets("v1").target_means
  /\ target_stds = fit_presets("v1").target_stds
  /\ ctx_means = <<>>
  /\ ctx_stds = <<>>
  /\ nm_scope = "out"
  /\ nm_standard \in BOOLEAN
  /\ nm_last = NoEvent

\* the calls made on the normalizer, transform with and without ctx_means and
\* ctx_stds passed
FitNext ==
  \/ \E target \in Images, mask \in BOOLEAN : NmFit(target, mask)
  \/ \E means \in {<<50 * Unit, 1>>}, stds \in {<<10 * Unit, 1>>} :
       NmSetFit(means, stds, "set_fit")
  \/ \E preset \in {"v1", "v2"} : NmFitPreset(preset)
  \/ \E I \in Images : NmSetContext(I)
  \/ NmClearContext
  \/ \E I \in Images : NmEnter(I)
  \/ NmExit
  \/ NmRaise
  \/ \E I \in Tiles, a_means \in PassedMeans, a_stds \in PassedStds, cast \in NanCasts :
       NmTransform(I, a_means, a_stds, cast)
  \/ NmReturn

SpecFit == FitInit /\ [][FitNext]_vars

\* C35: transform takes the source statistics from the stored context while one
\* is set, whatever ctx_means and ctx_stds it is passed; with no context set it
\* takes the two passed, and with none passed those of the tile itself.
C35_ContextSource ==
  nm_last.op = "transform" =>
    LET own == MeanStd([i \in 1..Len(nm_last.sb) |-> lab_split(nm_last.sb[i])])
        used == <<nm_last.mean, nm_last.std>>
        passed == nm_last.args
    IN  IF ctx_means # <<>> /\ ctx_stds # <<>>
        THEN ~ nm_last.raised /\ used = <<ctx_means[1], ctx_stds[1]>>
        ELSE IF passed[1] # <<>> /\ passed[2] # <<>>
        THEN ~ nm_last.raised /\ used = <<passed[1][1], passed[2][1]>>
        ELSE IF passed = <<<<>>, <<>>>>
        THEN ~ nm_last.raised /\ used = <<own.means, own.stds>>
        ELSE TRUE

\* a context is set and other statistics are passed: those of the context count
C35_Witness ==
  /\ nm_last.op = "transform"
  /\ ctx_means # <<>>
  /\ nm_last.args[1] # <<>>
  /\ nm_last.args[2] # <<>>
  /\ nm_last.mean = ctx_means[1]
  /\ nm_last.mean # nm_last.args[1][1]
  /\ nm_last.std # nm_last.args[2][1]

\* C36: the stored context mean and std are both None or both set, so a
\* transform with no statistics passed is never rejected; the low-level
\* transform raises ValueError exactly when it is given one of the two alone.
C36_ContextPaired ==
  /\ (ctx_means = <<>>) <=> (ctx_stds = <<>>)
  /\ nm_last.op = "transform" =>
       (nm_last.raised <=>
          /\ ctx_means = <<>>
          /\ (nm_last.args[1] = <<>>) # (nm_last.args[2] = <<>>))

\* after a context was set and cleared, a transform given ctx_means alone is rejected
C36_Witness ==
  /\ nm_last.op = "transform"
  /\ nm_last.raised
  /\ nm_last.args[1] # <<>>
  /\ nm_last.args[2] = <<>>
  /\ target_means # fit_presets("v1").target_means

\* C37: transform, set_context, clear_context and image_context leave
\* target_means and target_stds as they are; fit, fit_preset and set_fit store
\* the means and the stds of one and the same fit.
C37_FitReplacedWhole ==
  [][LET e == nm_last'
         target == <<target_means', target_stds'>>
         lab == [i \in 1..Len(e.sb) |-> lab_split(e.sb[i])]
     IN  CASE e.op = "fit" ->
                target = IF e.masked
                         THEN <<get_masked_mean_std(e.sb).means, get_masked_mean_std(e.sb).stds>>
                         ELSE <<MeanStd(lab).means, MeanStd(lab).stds>>
           [] e.op = "set_fit" -> target = <<e.args[1][1], e.args[2][1]>>
           [] e.op = "fit_preset" ->
                \E preset \in {"v1", "v2"} :
                  target = <<fit_presets(preset).target_means, fit_presets(preset).target_stds>>
           [] OTHER -> UNCHANGED <<target_means, target_stds>>]_vars

\* set_fit has replaced a fit made from an image
C37_Witness ==
  /\ nm_last.op = "set_fit"
  /\ ~ nm_last.kept
  /\ target_means = nm_last.args[1][1]
  /\ target_stds = nm_last.args[2][1]
  /\ ctx_means # <<>>

\* C17: when the scope of image_context has been left, by the end of its body
\* or by an exception, the context means and stds are both None.
C17_ContextCleared ==
  nm_last.op \in {"exit", "raise"} => (ctx_means = <<>> /\ ctx_stds = <<>>)

\* C18: with a mask_threshold, every pixel whose lightness fraction L/100 is
\* above it comes out of transform as it went in.
C18_BrightPixelsKept ==
  (nm_last.op = "transform" /\ ~ nm_last.raised /\ threshold # <<>>) =>
    \A i \in 1..Len(nm_last.I) :
      lab_split(nm_last.I[i])[1] > threshold[1] * Unit => nm_last.out[i] = nm_last.I[i]

\* C19: when the standard deviation of the source statistics is zero, transform
\* scales by a finite factor and no value it computes is nan.
C19_NoZeroDivision ==
  (nm_last.op = "transform" /\ nm_last.std = <<0, 1>>) =>
    (nm_last.scale[2] = 1 /\ ~ nm_last.nan)

\* C20: a masked fit (fit with mask, set_context, image_context) of an image
\* whose pixels are all 255 raises, and leaves the stored statistics as they were.
C20_EmptyMaskRaises ==
  (nm_last.masked /\ nm_last.blank) => (nm_last.raised /\ nm_last.kept)

\* C21: transform gives every pixel it normalizes the value
\* (pixel - source_mean) * (target_std / source_std) + target_mean, clipped; the
\* source statistics are those of the context when a context is set, and else
\* those of the pixel's own tile, whatever the other tiles of the batch are.
C21_PerTileRescale ==
  nm_last.op = "transform_batch" =>
    \A b \in 1..Len(nm_last.sb) : \A i \in 1..Len(nm_last.sb[b]) :
      LET tile == [j \in 1..Len(nm_last.sb[b]) |-> lab_split(nm_last.sb[b][j])]
          src == IF ctx_means # <<>> /\ ctx_stds # <<>>
                 THEN [means |-> ctx_means[1], stds |-> ctx_stds[1]]
                 ELSE MeanStd(tile)
          rescaled == FAdd(FMul(FAdd(tile[i], <<-src.means[1], src.means[2]>>),
                                FDiv(target_stds, src.stds)), target_means)
          masking == threshold # <<>> /\ threshold[1] # 0
      IN  IF masking /\ tile[i][1] >= threshold[1] * Unit
          THEN nm_last.out[b][i] = nm_last.sb[b][i]
          ELSE \E cast \in NanCasts : nm_last.out[b][i] = Clipped(rescaled, cast)

\* a batch of two tiles with different statistics and no context, each of
\* them rescaled
C21_Witness ==
  /\ nm_last.op = "transform_batch"
  /\ ctx_means = <<>>
  /\ threshold = <<>>
  /\ nm_last.sb = <<<<51, 204>>, <<51, 255>>>>
  /\ \A b \in 1..2 : nm_last.out[b] # nm_last.sb[b]

\* C22: a ReinhardNormalizer standardizes the brightness of the image given to
\* fit, set_context or image_context by the operation that its transform
\* applies to a tile, whatever the mask option is.
C22_SameStandardization ==
  (nm_standard /\ nm_last.op \in {"fit", "set_context", "enter"}) =>
    nm_last.sb = TransformStandardized(nm_last.I)

\* ------------------------------------------- SlideWidget: the tile filter
\* The slide's grid is one row of MaxCells cells (_filter_grid.shape[0] = 1).
\* Fractions and limits are in hundredths.
MaxCells == 2

Cells == 1..MaxCells

\* <<gs_fraction, ws_fraction>> of a tile
CellFractions == {<<0, 0>>, <<50, 0>>, <<0, 50>>}

\* the values of the sliders ##gs_fraction and ##ws_fraction
Limits == {0, 50, 100}

\* np.transpose(self.viz.wsi.grid).astype(np.bool): with ROIs in use the cells
\* outside of them are excluded when the grid is built
wsi_grid == [c \in Cells |-> use_rois => wg_rois[c]]

\* gs >= self.gs_fraction or ws >= self.ws_fraction
failed_qcAtLimit(gs, ws, gs_limit, ws_limit) == gs >= gs_limit \/ ws >= ws_limit

\* gs > self.gs_fraction or ws > self.ws_fraction
failed_qc(gs, ws, gs_limit, ws_limit) == gs > gs_limit \/ ws > ws_limit

\* the grid _build_filter_grid ends with, on the slide as it is loaded
RebuiltGrid ==
  [c \in Cells |->
     wsi_grid[c] /\ ~ failed_qc(wg_fractions[c][1], wg_fractions[c][2],
                                gs_fraction, ws_fraction)]

\* load(slide) has ended
WgInit ==
  /\ SkIdle /\ OrIdle /\ PrIdle /\ CtIdle /\ VpIdle /\ NmIdle /\ MfIdle /\ GpIdle
  \* the ROIs of a slide that loads leave some cell in its grid
  /\ wg_rois \in {g \in [Cells -> BOOLEAN] : \E c \in Cells : g[c]}
  /\ wg_fractions \in [Cells -> CellFractions]
  /\ use_rois = TRUE
  /\ show_tile_filter = FALSE
  /\ gs_fraction \in Limits
  /\ ws_fraction \in Limits
  /\ filter_grid = <<>>
  /\ ws_grid = <<>>
  /\ gs_grid = <<>>
  /\ filter_thread = "none"
  /\ wg_pc = "off"
  /\ wg_grid = <<>>
  /\ wg_generator = <<>>
  /\ wg_alive = 0
  /\ wg_main = "idle"
  /\ wg_last = NoOperation

\* (a join that does not wait for the thread)
JoinReturnsAtOnce == TRUE

\* _join_filter_thread(): self._filter_thread.join() returns when the thread
\* has ended
JoinReturns == filter_thread # "alive"

\* the checkbox 'Tile filter' is clicked: update_tile_filter()
WgTileFilterClicked ==
  /\ wg_last.op = "none"
  /\ wg_main = "idle"
  /\ show_tile_filter' = ~ show_tile_filter
  /\ IF show_tile_filter'
     THEN /\ JoinReturns
          /\ IF filter_grid = <<>>
             THEN \* _start_filter_thread()
                  /\ filter_thread' = "alive"
                  /\ wg_alive' = wg_alive + 1
                  /\ wg_pc' = "begin"
             ELSE /\ filter_thread' = "none"
                  /\ UNCHANGED <<wg_pc, wg_alive>>
     ELSE UNCHANGED <<filter_thread, wg_pc, wg_alive>>
  /\ UNCHANGED <<wg_rois, wg_fractions, use_rois, gs_fraction, ws_fraction, filter_grid,
                 ws_grid, gs_grid, wg_grid, wg_generator, wg_main, wg_last, wgOthers>>

\* _build_filter_grid, in the filter thread: the generator is built and the
\* grids are set up
WgBuildBegin ==
  /\ wg_last.op = "none"
  /\ wg_pc = "begin"
  /\ wg_pc' = "tiles"
  /\ wg_grid' = wsi_grid
  /\ wg_generator' = SelectSeq([c \in Cells |-> c], LAMBDA c : wsi_grid[c])
  /\ filter_grid' = <<wsi_grid>>
  /\ ws_grid' = <<[c \in Cells |-> 0]>>
  /\ gs_grid' = <<[c \in Cells |-> 0]>>
  /\ UNCHANGED <<wg_rois, wg_fractions, use_rois, show_tile_filter, gs_fraction,
                 ws_fraction, filter_thread, wg_alive, wg_main, wg_last, wgOthers>>

\* for tile in generator(): one tile
WgBuildTile ==
  /\ wg_last.op = "none"
  /\ wg_pc = "tiles"
  /\ wg_generator # <<>>
  /\ LET c == Head(wg_generator)
         gs == wg_fractions[c][1]
         ws == wg_fractions[c][2]
     IN  IF ws_grid = <<>>
         THEN \* except TypeError: the calculation is aborted
              /\ wg_pc' = "off"
              /\ filter_thread' = IF wg_alive = 1 THEN "ended" ELSE filter_thread
              /\ wg_alive' = wg_alive - 1
              /\ wg_generator' = <<>>
              /\ UNCHANGED <<filter_grid, ws_grid, gs_grid>>
         ELSE /\ ws_grid' = <<[ws_grid[1] EXCEPT ![c] = ws]>>
              /\ gs_grid' = <<[gs_grid[1] EXCEPT ![c] = gs]>>
              /\ filter_grid' = IF failed_qc(gs, ws, gs_fraction, ws_fraction)
                                THEN <<[filter_grid[1] EXCEPT ![c] = FALSE]>>
                                ELSE filter_grid
              /\ wg_generator' = Tail(wg_generator)
              /\ UNCHANGED <<wg_pc, filter_thread, wg_alive>>
  /\ UNCHANGED <<wg_rois, wg_fractions, use_rois, show_tile_filter, gs_fraction,
                 ws_fraction, wg_grid, wg_main, wg_last, wgOthers>>

\* the generator is exhausted: _build_filter_grid returns and the thread ends
WgBuildEnd ==
  /\ wg_last.op = "none"
  /\ wg_pc = "tiles"
  /\ wg_generator = <<>>
  /\ wg_pc' = "off"
  /\ filter_thread' = IF wg_alive = 1 THEN "ended" ELSE filter_thread
  /\ wg_alive' = wg_alive - 1
  /\ wg_last' = [NoOperation EXCEPT !.op = "build", !.grid = wg_grid]
  /\ UNCHANGED <<wg_rois, wg_fractions, use_rois, show_tile_filter, gs_fraction,
                 ws_fraction, filter_grid, ws_grid, gs_grid, wg_grid, wg_generator,
                 wg_main, wgOthers>>

\* a fraction slider is moved while no filter thread runs: refresh_gs_ws()
WgFractionChanged(gs, ws) ==
  /\ wg_last.op = "none"
  /\ wg_main = "idle"
  /\ filter_thread # "alive"
  /\ <<gs, ws>> # <<gs_fraction, ws_fraction>>
  /\ gs_fraction' = gs
  /\ ws_fraction' = ws
  /\ filter_thread' = "none"
  /\ UNCHANGED <<ws_grid, gs_grid>>
  /\ IF ws_grid # <<>>
     THEN /\ filter_grid' =
               <<[c \in Cells |->
                    wsi_grid[c] /\ ~ failed_qc(gs_grid[1][c], ws_grid[1][c], gs, ws)]>>
          /\ wg_last' = [NoOperation EXCEPT !.op = "refresh", !.grid = wsi_grid,
                            !.kept = (ws_grid' = ws_grid /\ gs_grid' = gs_grid),
                            !.started = (filter_thread' = "alive")]
     ELSE UNCHANGED <<filter_grid, wg_last>>
  /\ UNCHANGED <<wg_rois, wg_fractions, use_rois, show_tile_filter, wg_pc, wg_grid,
                 wg_generator, wg_alive, wg_main, wgOthers>>

\* reset_tile_filter_and_join_thread(), once the join has returned
ResetTileFilter ==
  /\ filter_grid' = <<>>
  /\ ws_grid' = <<>>
  /\ gs_grid' = <<>>

\* update_tile_filter() after a reset: with show_tile_filter the grid is None
\* and _start_filter_thread() runs
StartAfterReset ==
  IF show_tile_filter'
  THEN /\ filter_thread' = "alive"
       /\ wg_alive' = wg_alive + 1
       /\ wg_pc' = "begin"
  ELSE /\ filter_thread' = "none"
       /\ UNCHANGED <<wg_pc, wg_alive>>

\* a threshold slider is released: the thresholds change, and with them the
\* fractions of the tiles; reset_tile_filter_and_join_thread(), update_tile_filter()
WgThresholdChanged ==
  /\ wg_last.op = "none"
  /\ wg_main = "idle"
  /\ JoinReturns
  /\ wg_fractions' \in [Cells -> CellFractions]
  /\ ResetTileFilter
  /\ UNCHANGED show_tile_filter
  /\ StartAfterReset
  /\ UNCHANGED <<wg_rois, use_rois, gs_fraction, ws_fraction, wg_grid,
                 wg_generator, wg_main, wg_last, wgOthers>>

\* the checkbox 'Use ROIs' is clicked: viz._reload_wsi(use_rois=self._use_rois)
WgUseRoisClicked ==
  /\ wg_last.op = "none"
  /\ wg_main = "idle"
  /\ use_rois' = ~ use_rois
  /\ UNCHANGED <<wg_rois, wg_fractions, show_tile_filter, gs_fraction, ws_fraction,
                 filter_grid, ws_grid, gs_grid, filter_thread, wg_pc, wg_grid,
                 wg_generator, wg_alive, wg_main, wg_last, wgOthers>>

\* the tiles of a slide that is read anew: alike in their fractions
ReloadFractions == {[c \in Cells |-> f] : f \in CellFractions}

\* load(slide): reset_tile_filter_and_join_thread(), then the slide is read
\* with its ROIs in use
WgLoad ==
  /\ wg_last.op = "none"
  /\ wg_main = "idle"
  /\ JoinReturns
  /\ ResetTileFilter
  /\ filter_thread' = "none"
  /\ use_rois' = TRUE
  /\ wg_rois' \in {g \in [Cells -> BOOLEAN] : \E c \in Cells : g[c]}
  /\ wg_fractions' \in ReloadFractions
  /\ UNCHANGED <<show_tile_filter, gs_fraction, ws_fraction, wg_pc, wg_grid, wg_generator,
                 wg_alive, wg_main, wg_last, wgOthers>>

\* the stride slider is released: refresh_stride() resets the filter, hides it
\* and reads the slide again, with other tiles
WgRefreshStride ==
  /\ wg_last.op = "none"
  /\ wg_main = "idle"
  /\ JoinReturns
  /\ ResetTileFilter
  /\ filter_thread' = "none"
  /\ show_tile_filter' = FALSE
  /\ wg_fractions' \in ReloadFractions
  /\ UNCHANGED <<wg_rois, use_rois, gs_fraction, ws_fraction, wg_pc, wg_grid, wg_generator,
                 wg_alive, wg_main, wg_last, wgOthers>>

\* 'Slide filter' or the QC method is clicked: update_slide_filter() calls
\* self.viz.wsi.remove_qc() and then waits in _join_filter_thread()
WgSlideFilterClicked ==
  /\ wg_last.op = "none"
  /\ wg_main = "idle"
  /\ wg_main' = "join"
  /\ UNCHANGED <<wg_rois, wg_fractions, use_rois, show_tile_filter, gs_fraction,
                 ws_fraction, filter_grid, ws_grid, gs_grid, filter_thread, wg_pc,
                 wg_grid, wg_generator, wg_alive, wg_last, wgOthers>>

\* update_slide_filter() after its join: the QC mask is set, the tile filter is
\* reset and, when it is shown, update_tile_filter() starts a thread
WgSlideFilterJoined ==
  /\ wg_last.op = "none"
  /\ wg_main = "join"
  /\ JoinReturns
  /\ wg_main' = "idle"
  /\ ResetTileFilter
  /\ UNCHANGED show_tile_filter
  /\ StartAfterReset
  /\ UNCHANGED <<wg_rois, wg_fractions, use_rois, gs_fraction, ws_fraction, wg_grid,
                 wg_generator, wg_last, wgOthers>>

\* the frame goes on
WgReturn ==
  /\ wg_last.op # "none"
  /\ wg_last' = NoOperation
  /\ UNCHANGED <<wg_rois, wg_fractions, use_rois, show_tile_filter, gs_fraction,
                 ws_fraction, filter_grid, ws_grid, gs_grid, filter_thread, wg_pc,
                 wg_grid, wg_generator, wg_alive, wg_main, wgOthers>>

WgNext ==
  \/ WgTileFilterClicked
  \/ WgBuildBegin
  \/ WgBuildTile
  \/ WgBuildEnd
  \/ \E gs \in Limits, ws \in Limits : WgFractionChanged(gs, ws)
  \/ WgThresholdChanged
  \/ WgUseRoisClicked
  \/ WgLoad
  \/ WgRefreshStride
  \/ WgSlideFilterClicked
  \/ WgSlideFilterJoined
  \/ WgReturn

SpecWidget == WgInit /\ [][WgNext]_vars

\* C38: at most one filter thread is alive at any time, and it is the one
\* self._filter_thread refers to: a thread is started only once the one before
\* it has been joined.
C38_OneFilterThread ==
  /\ wg_alive <= 1
  /\ wg_alive = 1 => filter_thread = "alive"

\* a filter thread has been started after an earlier one built its grids
C38_Witness ==
  /\ wg_alive = 1
  /\ wg_pc = "begin"
  /\ wg_grid # <<>>
  /\ filter_grid = <<>>

\* C39: the filter thread never runs while the state it works on is changed:
\* while it goes through the tiles the slide's grid is the one it read and the
\* grids it writes are not reset, and no thread is alive when
\* update_slide_filter has removed the slide's QC.
C39_BuilderUndisturbed ==
  /\ wg_pc = "tiles" => (wg_grid = wsi_grid /\ ws_grid # <<>>)
  /\ wg_main = "join" => wg_alive = 0

C24_RefreshIsRebuild ==
  wg_last.op = "refresh" =>
    /\ wg_last.kept
    /\ ~ wg_last.started
    /\ filter_grid = <<RebuiltGrid>>

\* ------------------------------------------------------ update_manifest
\* the record files tfrecord_dir/<folder>/<name>.tfrecords of a project
RecordPaths == {<<"a", "s1">>, <<"a", "s2">>, <<"b", "s3">>}

\* sfutil.verify_tiles(annotations, tfrecord_files): an entry with the tiles of
\* each file given, keyed by the file's path
verify_tiles(tfrecord_files) ==
  [p \in RecordPaths |-> IF p \in tfrecord_files THEN <<mf_tfrecords[p]>> ELSE <<>>]

\* the manifest replaced by the entries
UpdateReplacing(MANIFEST, entries) == entries

\* dict.update: the keys of entries are added or replaced
Update(MANIFEST, entries) ==
  [p \in RecordPaths |-> IF entries[p] # <<>> THEN entries[p] ELSE MANIFEST[p]]

\* a project with record files and no manifest.json yet
MfInit ==
  /\ SkIdle /\ OrIdle /\ PrIdle /\ CtIdle /\ VpIdle /\ NmIdle /\ WgIdle /\ GpIdle
  /\ mf_tfrecords \in [RecordPaths -> 0..MaxTiles]
  /\ manifest_json = <<>>
  /\ mf_last = NoUpdate

\* a record file is written, rewritten (n tiles) or removed (n = 0)
MfRecordChanged(p, n) ==
  /\ mf_last.op = "none"
  /\ n # mf_tfrecords[p]
  /\ mf_tfrecords' = [mf_tfrecords EXCEPT ![p] = n]
  /\ UNCHANGED <<manifest_json, mf_last, mfOthers>>

\* update_manifest(subfolder, skip_verification)
MfUpdate(subfolder, skip_verification) ==
  /\ mf_last.op = "none"
  /\ IF manifest_json = <<>>
     THEN \* generate_manifest(): glob(tfrecord_dir/**/*.tfrecords)
          manifest_json' =
            <<verify_tiles({p \in RecordPaths : mf_tfrecords[p] # 0})>>
     ELSE \* glob(tfrecord_dir/subfolder/*.tfrecords)
          LET tfrecord_files ==
                {p \in RecordPaths : p[1] = subfolder /\ mf_tfrecords[p] # 0}
          IN  manifest_json' =
                IF skip_verification THEN manifest_json
                ELSE <<Update(manifest_json[1], verify_tiles(tfrecord_files))>>
  /\ mf_last' = [op |-> "update", subfolder |-> subfolder,
                 skipped |-> skip_verification, before |-> manifest_json]
  /\ UNCHANGED <<mf_tfrecords, mfOthers>>

\* the caller goes on
MfReturn ==
  /\ mf_last.op # "none"
  /\ mf_last' = NoUpdate
  /\ UNCHANGED <<mf_tfrecords, manifest_json, mfOthers>>

MfNext ==
  \/ \E p \in RecordPaths, n \in 0..MaxTiles : MfRecordChanged(p, n)
  \/ \E subfolder \in {"a", "b"}, skip_verification \in BOOLEAN :
       MfUpdate(subfolder, skip_verification)
  \/ MfReturn

SpecManifest == MfInit /\ [][MfNext]_vars

\* C25: update_manifest of a folder, with a manifest file there, leaves the
\* entry of every record file outside the folder as it was and gives every
\* record file of the folder its entry; only without a manifest file is the
\* manifest built anew, from the record files of every folder.
C25_Incremental ==
  mf_last.op = "update" =>
    IF mf_last.before = <<>>
    THEN \A p \in RecordPaths :
           manifest_json[1][p] = IF mf_tfrecords[p] # 0 THEN <<mf_tfrecords[p]>> ELSE <<>>
    ELSE \A p \in RecordPaths :
           IF p[1] = mf_last.subfolder /\ mf_tfrecords[p] # 0 /\ ~ mf_last.skipped
           THEN manifest_json[1][p] = <<mf_tfrecords[p]>>
           ELSE manifest_json[1][p] = mf_last.before[1][p]

\* an update of folder "a" that replaces an entry of the folder and keeps an
\* entry of folder "b" that no longer matches its file
C25_Witness ==
  /\ mf_last.op = "update"
  /\ mf_last.subfolder = "a"
  /\ mf_last.before # <<>>
  /\ manifest_json[1][<<"a", "s1">>] # mf_last.before[1][<<"a", "s1">>]
  /\ manifest_json[1][<<"b", "s3">>] # <<>>
  /\ manifest_json[1][<<"b", "s3">>] # <<mf_tfrecords[<<"b", "s3">>]>>

\* ------------------------------------- autoselect_gpu, select_gpu, exit_script
NumInstances == 2

NumGpus == 2

Instances == 1..NumInstances

\* range(number_available)
Gpus == 0..(NumGpus - 1)

\* the instances are started; lock files of earlier runs may lie around
GpInit ==
  /\ SkIdle /\ OrIdle /\ PrIdle /\ CtIdle /\ VpIdle /\ NmIdle /\ WgIdle /\ MfIdle
  /\ gpu_locks \in SUBSET Gpus
  /\ GPU_LOCK = [i \in Instances |-> -1]
  /\ gp_pc = [i \in Instances |-> "start"]
  /\ gp_n = [i \in Instances |-> 0]

\* autoselect_gpu(number_available): one turn of the loop,
\* if not exists(join(SOURCE_DIR, f"gpu{n}.lock"))
GpExists(i) ==
  /\ gp_pc[i] \in {"start", "loop"}
  /\ IF gp_n[i] \notin gpu_locks
     THEN gp_pc' = [gp_pc EXCEPT ![i] = "free"]
     ELSE IF gp_n[i] + 1 \in Gpus
     THEN gp_pc' = [gp_pc EXCEPT ![i] = "loop"]
     ELSE \* log.error("No free GPUs detected ...")
          gp_pc' = [gp_pc EXCEPT ![i] = "none"]
  /\ gp_n' = [gp_n EXCEPT ![i] = IF gp_n[i] \in gpu_locks /\ gp_n[i] + 1 \in Gpus
                                 THEN gp_n[i] + 1 ELSE gp_n[i]]
  /\ UNCHANGED <<gpu_locks, GPU_LOCK, gpOthers>>

\* open(join(SOURCE_DIR, f"gpu{n}.lock"), 'a').close(); GPU_LOCK = n; return
GpOpen(i) ==
  /\ gp_pc[i] = "free"
  /\ gpu_locks' = gpu_locks \cup {gp_n[i]}
  /\ GPU_LOCK' = [GPU_LOCK EXCEPT ![i] = gp_n[i]]
  /\ gp_pc' = [gp_pc EXCEPT ![i] = "auto"]
  /\ UNCHANGED <<gp_n, gpOthers>>

\* select_gpu(number)
GpSelect(i, number) ==
  /\ gp_pc[i] = "start"
  /\ GPU_LOCK' = [GPU_LOCK EXCEPT ![i] = number]
  /\ gp_pc' = [gp_pc EXCEPT ![i] = "manual"]
  /\ UNCHANGED <<gpu_locks, gp_n, gpOthers>>

\* exit_script()
GpExit(i) ==
  /\ gp_pc[i] \in {"auto", "manual", "none"}
  /\ gpu_locks' = IF GPU_LOCK[i] # -1 /\ GPU_LOCK[i] \in gpu_locks
                  THEN gpu_locks \ {GPU_LOCK[i]} ELSE gpu_locks
  /\ gp_pc' = [gp_pc EXCEPT ![i] = "exited"]
  /\ UNCHANGED <<GPU_LOCK, gp_n, gpOthers>>

GpNext ==
  \/ \E i \in Instances : GpExists(i)
  \/ \E i \in Instances : GpOpen(i)
  \/ \E i \in Instances, number \in Gpus : GpSelect(i, number)
  \/ \E i \in Instances : GpExit(i)

SpecGpu == GpInit /\ [][GpNext]_vars

\* C27: no two running instances that called autoselect_gpu have claimed the
\* same GPU number.
C27_MutualExclusion ==
  \A i, j \in Instances :
    (i # j /\ gp_pc[i] = "auto" /\ gp_pc[j] = "auto") => GPU_LOCK[i] # GPU_LOCK[j]

\* C40: exit_script removes no lock file but the instance's own: while an
\* instance that made a lock file in autoselect_gpu is running, its lock file is
\* there.
C40_OwnLockKept ==
  \A i \in Instances : gp_pc[i] = "auto" => GPU_LOCK[i] \in gpu_locks

\* ------------------------------------------- extract_tiles: skip_extracted
\* the dataset's slides, the names of its record files and of its
\* '.unfinished' markers, as the directory listings return them
SkInit ==
  /\ sk_pc = "check"
  /\ sk_skip \in BOOLEAN
  /\ slide_input \in DistinctSeqs(SlidePaths, MaxSlides)
  /\ tfrecord_names \in DistinctSeqs(RecordNames, Cardinality(RecordNames))
  /\ interrupted \in DistinctSeqs(RecordNames, Cardinality(RecordNames))
  /\ sk_i = 1
  /\ already_extracted_tfrecords = <<>>
  /\ sk_slide_list = slide_input

\* if skip_extracted and save_tfrecord: read the two listings
SkCheck ==
  /\ sk_pc = "check"
  /\ IF sk_skip
       THEN /\ already_extracted_tfrecords' = tfrecord_names
            /\ sk_pc' = "interrupted"
       ELSE /\ already_extracted_tfrecords' = already_extracted_tfrecords
            /\ sk_pc' = "done"
  /\ UNCHANGED <<sk_skip, slide_input, tfrecord_names, interrupted, sk_i, sk_slide_list>>
  /\ UNCHANGED skOthers

\* (the loop without its del)
ForgetInterruptedNever(extracted, name) == extracted

\* one turn of 'for interrupted_slide in interrupted'
ForgetInterrupted(extracted, name) ==
  IF name \in Range(extracted) THEN DelFirst(extracted, name) ELSE extracted

SkInterrupted ==
  /\ sk_pc = "interrupted"
  /\ sk_i <= Len(interrupted)
  /\ already_extracted_tfrecords' =
       ForgetInterrupted(already_extracted_tfrecords, interrupted[sk_i])
  /\ sk_i' = sk_i + 1
  /\ UNCHANGED <<sk_pc, sk_skip, slide_input, tfrecord_names, interrupted, sk_slide_list>>
  /\ UNCHANGED skOthers

\* slide_list = [slide for slide in slide_list if path_to_name(slide) not in already_extracted]
FilterExtracted(slides, extracted) ==
  SelectSeq(slides, LAMBDA s : path_to_name(s) \notin Range(extracted))

SkFilter ==
  /\ sk_pc = "interrupted"
  /\ sk_i > Len(interrupted)
  /\ sk_slide_list' = FilterExtracted(sk_slide_list, already_extracted_tfrecords)
  /\ sk_pc' = "done"
  /\ UNCHANGED <<sk_skip, slide_input, tfrecord_names, interrupted, sk_i,
                 already_extracted_tfrecords>>
  /\ UNCHANGED skOthers

SkNext ==
  \/ SkCheck
  \/ SkInterrupted
  \/ SkFilter

SkipInit == SkInit /\ OrIdle /\ PrIdle /\ CtIdle /\ VpIdle /\ NmIdle /\ WgIdle /\ MfIdle /\ GpIdle

SpecSkip == SkipInit /\ [][SkNext]_vars

\* C2: with skip_extracted and save_tfrecord, the slides left for extraction are
\* exactly the input slides minus those that have a record file and no
\* '.unfinished' marker.
C2_SkipExactlyComplete ==
  (sk_pc = "done" /\ sk_skip) =>
    Range(sk_slide_list) =
      {s \in Range(slide_input) :
         ~ (path_to_name(s) \in Range(tfrecord_names)
            /\ path_to_name(s) \notin Range(interrupted))}

\* a record and a marker for one slide, and a complete record for another
C2_Witness ==
  /\ sk_pc = "done" /\ sk_skip
  /\ \E s, t \in Range(slide_input) :
       /\ path_to_name(s) \in Range(tfrecord_names)
       /\ path_to_name(s) \in Range(interrupted)
       /\ s \in Range(sk_slide_list)
       /\ path_to_name(t) \in Range(tfrecord_names)
       /\ path_to_name(t) \notin Range(interrupted)
       /\ t \notin Range(sk_slide_list)
====
